---- MODULE Spec2Model ----
(***************************************************************************)
(* Graphium Calculator: the EquationSolver and MatrixCalculator components *)
(* (src/src/components/calculator/EquationSolver.tsx), the                 *)
(* PiecewiseCalculator (src/unnamed/part_001), the ComplexCalculator       *)
(* (src/unnamed/part_000), the BaseConverter                               *)
(* (src/src/components/calculator/BaseConverter.tsx) and the Index page    *)
(* with its navigation (src/src/pages/Index.tsx, src/unnamed/part_003).    *)
(*                                                                         *)
(* Numbers.  The program computes in IEEE doubles.  Here a number is a     *)
(* decimal fixed-point value: the integer n stands for n / Scale, with     *)
(* Scale = 10^Digits, every product and quotient is rounded to the nearest *)
(* representable value, and NaN is a value of its own that every           *)
(* arithmetic operation propagates and every comparison rejects, as in     *)
(* JavaScript.  A magnitude above MaxMag is not representable and becomes  *)
(* NaN.  All intermediate integers stay below 2^31.                        *)
(*                                                                         *)
(* Text.  A text field is a sequence of one-character strings.             *)
(*                                                                         *)
(* The evaluator and the sampler (@/lib/mathEngine) are not part of the    *)
(* sources at hand; evaluate and generateGraphPoints follow their          *)
(* contracts in the specification (sections 4.1, 4.2 and 4.6).             *)
(***************************************************************************)
EXTENDS Integers, Sequences, FiniteSets, TLC

\* number of decimal fraction digits of the fixed-point numbers
Digits == 5

RECURSIVE Pow10(_)
Pow10(k) == IF k = 0 THEN 1 ELSE 10 * Pow10(k - 1)

Scale == Pow10(Digits)

MaxMag == 2000 * Scale

Abs(n) == IF n < 0 THEN 0 - n ELSE n

Num(n) == [nan |-> FALSE, v |-> n]

NaN == [nan |-> TRUE, v |-> 0]

\* Op applied to the values of a and b, each computed once
Apply2(Op(_, _), a, b) == CHOOSE r \in {Op(p[1], p[2]) : p \in {<<a, b>>}} : TRUE

\* from h = <<q, r>> with a * (m \div 2) = q * d + r to the pair for a * m
MulDivStep(h, a, m, d) ==
  IF h[1] < 0 \/ h[1] > MaxMag \div 2 THEN <<-1, 0>>
  ELSE LET c1 == IF h[2] >= d - h[2] THEN 1 ELSE 0
           r1 == IF h[2] >= d - h[2] THEN h[2] - (d - h[2]) ELSE h[2] + h[2]
           am == IF m % 2 = 1 THEN a % d ELSE 0
           aq == IF m % 2 = 1 THEN a \div d ELSE 0
           c2 == IF r1 >= d - am THEN 1 ELSE 0
       IN IF aq > MaxMag - (2 * h[1] + c1 + c2) THEN <<-1, 0>>
          ELSE <<2 * h[1] + c1 + c2 + aq, IF c2 = 1 THEN r1 - (d - am) ELSE r1 + am>>

\* a * m = q * d + r with 0 <= r < d, for a, m >= 0 and d > 0, as <<q, r>>;
\* <<-1, 0>> when q would exceed MaxMag.  Double-and-add over the bits of m,
\* so that no intermediate integer leaves the 32-bit range.
RECURSIVE MulDivQR(_, _, _)
MulDivQR(a, m, d) ==
  IF m = 0 THEN <<0, 0>>
  ELSE CHOOSE r \in {MulDivStep(h, t[1], t[2], t[3]) :
                      h \in {MulDivQR(a, m \div 2, d)}, t \in {<<a, m, d>>}} : TRUE

\* <<q, r>> rounded to the nearest integer, half away from zero
RoundQR(qr, d) ==
  IF qr[1] < 0 THEN -1
  ELSE IF qr[2] >= d - qr[2] THEN qr[1] + 1 ELSE qr[1]

\* round(a * m / d) on magnitudes; -1 when too large
RoundMulDiv(a, m, d) == Apply2(RoundQR, MulDivQR(a, m, d), d)

SignedMag(neg, mag) ==
  IF mag < 0 \/ mag > MaxMag THEN NaN
  ELSE Num(IF neg THEN 0 - mag ELSE mag)

Signed(neg, mag) == Apply2(SignedMag, neg, mag)

AddValues(a, b) ==
  IF a.nan \/ b.nan THEN NaN
  ELSE IF Abs(a.v + b.v) > MaxMag THEN NaN ELSE Num(a.v + b.v)

\* a + b
FAdd(a, b) == Apply2(AddValues, a, b)

Negate(b) == IF b.nan THEN NaN ELSE Num(0 - b.v)

\* a - b
FSub(a, b) == FAdd(a, Negate(b))

MulValues(a, b) ==
  IF a.nan \/ b.nan THEN NaN
  ELSE Signed((a.v < 0) # (b.v < 0), RoundMulDiv(Abs(a.v), Abs(b.v), Scale))

\* a * b
FMul(a, b) == Apply2(MulValues, a, b)

\* 0/0 is NaN and n/0 is infinite, which is not representable
DivValues(a, b) ==
  IF a.nan \/ b.nan THEN NaN
  ELSE IF b.v = 0 THEN NaN
  ELSE Signed((a.v < 0) # (b.v < 0), RoundMulDiv(Abs(a.v), Scale, Abs(b.v)))

\* a / b
FDiv(a, b) == Apply2(DivValues, a, b)

AbsLtValue(a, k) ==
  IF a.nan THEN FALSE
  ELSE IF k <= Digits THEN Abs(a.v) < Pow10(Digits - k) ELSE a.v = 0

\* Math.abs(a) < 1e-k
AbsLt(a, k) == Apply2(AbsLtValue, a, k)

\* Number.prototype.toFixed(d): the value rounded to d decimals, as the
\* integer count of 10^-d (negative zero and NaN are not produced by callers
\* that pass a number)
ToFixed(n, d) ==
  LET mag == RoundMulDiv(Abs(n), Pow10(d), Scale)
  IN IF n < 0 THEN 0 - mag ELSE mag

(***************************************************************************)
(* Expressions accepted by the polynomial field.  mathjs parses the text;  *)
(* here an expression is its coefficient list (highest power first) and    *)
(* the way its evaluation can fail:                                        *)
(*   syntax           math.compile / math.derivative throws                *)
(*   undefinedSymbol  evaluate throws at every x                           *)
(*   domain           evaluate throws for x > 0                            *)
(*   nanAtZero        evaluate returns NaN at x = 0                        *)
(***************************************************************************)
Cubic == [text |-> "x^3 - 6x^2 + 11x - 6", coef |-> <<1, -6, 11, -6>>, fault |-> "none"]

Polynomials ==
  { Cubic,
    [text |-> "x^2 - 2", coef |-> <<1, 0, -2>>, fault |-> "none"],
    [text |-> "x^3 - x", coef |-> <<1, 0, -1, 0>>, fault |-> "none"],
    [text |-> "30x - 1", coef |-> <<30, -1>>, fault |-> "none"],
    [text |-> "5", coef |-> <<5>>, fault |-> "none"],
    [text |-> "x^2 + 1", coef |-> <<1, 0, 1>>, fault |-> "none"],
    [text |-> "x^2/x - 2", coef |-> <<1, -2>>, fault |-> "nanAtZero"],
    [text |-> "x^2 - 4 + y", coef |-> <<1, 0, -4>>, fault |-> "undefinedSymbol"],
    [text |-> "x^2 - 4 + 0*nthRoot(-x)", coef |-> <<1, 0, -4>>, fault |-> "domain"],
    [text |-> "x^3 - ", coef |-> <<>>, fault |-> "syntax"] }

\* x ^ k
RECURSIVE FPow(_, _)
FPow(x, k) == IF k = 0 THEN Num(Scale) ELSE FMul(FPow(x, k - 1), x)

\* c * x ^ k for an integer literal c
Term(c, k, x) ==
  IF k = 0 THEN Num(c * Scale) ELSE FMul(Num(c * Scale), FPow(x, k))

\* the sum of the terms of coef from index j on, added to acc left to right
RECURSIVE SumTerms(_, _, _, _)
SumTerms(coef, j, x, acc) ==
  IF j > Len(coef) THEN acc
  ELSE SumTerms(coef, j + 1, x, FAdd(acc, Term(coef[j], Len(coef) - j, x)))

\* value of the polynomial with coefficients coef at x
Horner(coef, x) ==
  IF Len(coef) = 0 THEN Num(0)
  ELSE SumTerms(coef, 2, x, Term(coef[1], Len(coef) - 1, x))

\* a derivative that multiplies each term by the lowered exponent k - 1
\* instead of the exponent k of the power rule
DerivativeLoweredFactor(coef) ==
  [j \in 1..(IF Len(coef) = 0 THEN 0 ELSE Len(coef) - 1) |-> coef[j] * (Len(coef) - j - 1)]

\* math.derivative(polynomial, 'x')
Derivative(coef) ==
  [j \in 1..(IF Len(coef) = 0 THEN 0 ELSE Len(coef) - 1) |-> coef[j] * (Len(coef) - j)]

\* f.evaluate({ x }) throws
EvalThrows(p, x) ==
  \/ p.fault = "undefinedSymbol"
  \/ p.fault = "domain" /\ ~x.nan /\ x.v > 0

\* the message of the error that evaluation or compilation throws
ThrownMessage(p) ==
  CASE p.fault = "undefinedSymbol" -> "Undefined symbol y"
    [] p.fault = "domain" -> "Root must be odd when a is negative."
    [] p.fault = "syntax" -> "Unexpected end of expression"
    [] OTHER -> "Invalid polynomial"

\* f.evaluate({ x }) when it returns
EvalF(p, x) ==
  IF x.nan THEN NaN
  ELSE IF p.fault = "nanAtZero" /\ x.v = 0 THEN NaN
  ELSE Horner(p.coef, x)

\* dfCompiled.evaluate({ x }) when it returns
EvalDF(p, x) ==
  IF x.nan THEN NaN ELSE Horner(Derivative(p.coef), x)


(***************************************************************************)
(* Texts of the two equation fields.                                       *)
(***************************************************************************)
\* "2x + 3y = 8": the default and placeholder of the first field
EqDefault1 == <<"2", "x", " ", "+", " ", "3", "y", " ", "=", " ", "8">>

\* "x - y = 1": the default and placeholder of the second field
EqDefault2 == <<"x", " ", "-", " ", "y", " ", "=", " ", "1">>

\* "x - 1y = 1"
EqExplicitUnit == <<"x", " ", "-", " ", "1", "y", " ", "=", " ", "1">>

\* "4x + 6y = 16"
EqDouble == <<"4", "x", " ", "+", " ", "6", "y", " ", "=", " ", "1", "6">>

\* "-x + 2y = 3"
EqNegUnitX == <<"-", "x", " ", "+", " ", "2", "y", " ", "=", " ", "3">>

\* "0.5x - 1.5y = -2"
EqDecimal == <<"0", ".", "5", "x", " ", "-", " ", "1", ".", "5", "y", " ", "=", " ", "-", "2">>

\* "x + y = 5"
EqPlusUnitY == <<"x", " ", "+", " ", "y", " ", "=", " ", "5">>

\* "3x+2y=7"
EqTight == <<"3", "x", "+", "2", "y", "=", "7">>

\* "0x + 0y = 0"
EqZero == <<"0", "x", " ", "+", " ", "0", "y", " ", "=", " ", "0">>

\* ".x + 1y = 2"
EqDotOnly == <<".", "x", " ", "+", " ", "1", "y", " ", "=", " ", "2">>

\* "1/2x + 3y = 8"
EqFraction == <<"1", "/", "2", "x", " ", "+", " ", "3", "y", " ", "=", " ", "8">>

\* "3y + 2x = 8"
EqYFirst == <<"3", "y", " ", "+", " ", "2", "x", " ", "=", " ", "8">>

\* "eq: 2x + 3y = 8 ok"
EqExtraText == <<"e", "q", ":", " ", "2", "x", " ", "+", " ", "3", "y", " ", "=", " ", "8", " ", "o", "k">>

\* "2x + 3y"
EqNoRhs == <<"2", "x", " ", "+", " ", "3", "y">>

\* "2x + 3y = -"
EqDanglingMinus == <<"2", "x", " ", "+", " ", "3", "y", " ", "=", " ", "-">>

\* ""
EqEmpty == <<>>

EqTexts ==
  { EqDefault1,
    EqDefault2,
    EqExplicitUnit,
    EqDouble,
    EqNegUnitX,
    EqDecimal,
    EqPlusUnitY,
    EqTight,
    EqZero,
    EqDotOnly,
    EqFraction,
    EqYFirst,
    EqExtraText,
    EqNoRhs,
    EqDanglingMinus,
    EqEmpty }

IsDigit(c) == c \in {"0", "1", "2", "3", "4", "5", "6", "7", "8", "9"}

\* \s
IsSpace(c) == c \in {" ", "\t"}

DigitValue(c) ==
  CASE c = "0" -> 0 [] c = "1" -> 1 [] c = "2" -> 2 [] c = "3" -> 3 [] c = "4" -> 4
    [] c = "5" -> 5 [] c = "6" -> 6 [] c = "7" -> 7 [] c = "8" -> 8 [] c = "9" -> 9

\* the character of s at position p, "" past the end
At(s, p) == IF p >= 1 /\ p <= Len(s) THEN s[p] ELSE ""

\* \d* from p: the position after the longest run of digits
RECURSIVE SkipDigits(_, _)
SkipDigits(s, p) == IF IsDigit(At(s, p)) THEN SkipDigits(s, p + 1) ELSE p

\* \s* from p
RECURSIVE SkipSpaces(_, _)
SkipSpaces(s, p) == IF IsSpace(At(s, p)) THEN SkipSpaces(s, p + 1) ELSE p

\* c? from p
SkipOpt(s, p, c) == IF At(s, p) = c THEN p + 1 ELSE p

\* \d*\.?\d* from p
SkipDecimal(s, p) == SkipDigits(s, SkipOpt(s, SkipDigits(s, p), "."))

Slice(s, from, to) == IF to < from THEN <<>> ELSE SubSeq(s, from, to)

NoMatch == [ok |-> FALSE, m1 |-> <<>>, m2 |-> <<>>, m3 |-> <<>>]

\* /(-?\d*\.?\d*)x\s*([+-]\s*\d*\.?\d*)y\s*=\s*(-?\d+\.?\d*)/ tried at position p.
\* Every quantified piece is followed by a character outside its class, so the
\* greedy scan is the only way the pattern can match from p.
MatchAt(s, p) ==
  LET xPos == SkipDecimal(s, SkipOpt(s, p, "-"))
      sgn == SkipSpaces(s, xPos + 1)
      yPos == SkipDecimal(s, SkipSpaces(s, sgn + 1))
      eqPos == SkipSpaces(s, yPos + 1)
      cPos == SkipSpaces(s, eqPos + 1)
      cDig == SkipOpt(s, cPos, "-")
      cInt == SkipDigits(s, cDig)
      cEnd == SkipDigits(s, SkipOpt(s, cInt, "."))
  IN IF /\ At(s, xPos) = "x"
        /\ At(s, sgn) \in {"+", "-"}
        /\ At(s, yPos) = "y"
        /\ At(s, eqPos) = "="
        /\ cInt > cDig
     THEN [ok |-> TRUE, m1 |-> Slice(s, p, xPos - 1), m2 |-> Slice(s, sgn, yPos - 1),
           m3 |-> Slice(s, cPos, cEnd - 1)]
     ELSE NoMatch

\* eq.match(...): the leftmost position at which the pattern matches
RECURSIVE MatchFrom(_, _)
MatchFrom(s, p) ==
  IF p > Len(s) + 1 THEN NoMatch
  ELSE IF MatchAt(s, p).ok THEN MatchAt(s, p) ELSE MatchFrom(s, p + 1)

\* the digits s[p..q-1] as an integer
RECURSIVE DigitsInt(_, _, _, _)
DigitsInt(s, p, q, acc) ==
  IF p >= q THEN acc ELSE DigitsInt(s, p + 1, q, 10 * acc + DigitValue(s[p]))

\* the fraction digits s[p..q-1], in units of 1/Scale; digits past the
\* resolution are dropped
RECURSIVE FracUnits(_, _, _, _)
FracUnits(s, p, q, k) ==
  IF p >= q \/ k > Digits THEN 0
  ELSE DigitValue(s[p]) * Pow10(Digits - k) + FracUnits(s, p + 1, q, k + 1)

\* parseFloat(s): the longest prefix sign? digits* .? digits* that holds a
\* digit, after leading white space; NaN when there is none.  (Exponents do
\* not occur in the texts the pattern captures.)
ParseFloat(s) ==
  LET p0 == SkipSpaces(s, 1)
      p1 == IF At(s, p0) \in {"+", "-"} THEN p0 + 1 ELSE p0
      p2 == SkipDigits(s, p1)
      p3 == IF At(s, p2) = "." THEN SkipDigits(s, p2 + 1) ELSE p2
      mag == DigitsInt(s, p1, p2, 0) * Scale + FracUnits(s, p2 + 1, p3, 1)
  IN IF p2 = p1 /\ p3 <= p2 + 1 THEN NaN
     ELSE Num(IF At(s, p0) = "-" THEN 0 - mag ELSE mag)

\* match[2].replace(/\s/g, '')
StripSpaces(s) == SelectSeq(s, LAMBDA c : ~IsSpace(c))

NullParse == [ok |-> FALSE, a |-> NaN, b |-> NaN, c |-> NaN]

\* parseEquation(eq): null when the pattern does not match
parseEquation(eq) ==
  LET match == MatchFrom(eq, 1)
  IN IF ~match.ok THEN NullParse
     ELSE [ok |-> TRUE,
           a |-> IF match.m1 = <<>> \/ match.m1 = <<"+">> THEN Num(Scale)
                 ELSE IF match.m1 = <<"-">> THEN Num(0 - Scale)
                 ELSE ParseFloat(match.m1),
           b |-> ParseFloat(StripSpaces(match.m2)),
           c |-> ParseFloat(match.m3)]

\* a1 * b2 - a2 * b1
Det(p1, p2) == FSub(FMul(p1.a, p2.b), FMul(p2.a, p1.b))

\* (c1 * b2 - c2 * b1) / det
CramerX(p1, p2) == FDiv(FSub(FMul(p1.c, p2.b), FMul(p2.c, p1.b)), Det(p1, p2))

\* the second numerator with its terms exchanged
CramerYSwapped(p1, p2) == FDiv(FSub(FMul(p2.a, p1.c), FMul(p1.a, p2.c)), Det(p1, p2))

\* (a1 * c2 - a2 * c1) / det
CramerY(p1, p2) == FDiv(FSub(FMul(p1.a, p2.c), FMul(p2.a, p1.c)), Det(p1, p2))

\* a test that compares the number with the text '0'
IsZeroNever(det) == FALSE

\* det === 0
IsZero(det) == ~det.nan /\ det.v = 0

\* v.toFixed(6), "NaN" for NaN
FixedText(v) == IF v.nan THEN NaN ELSE Num(ToFixed(v.v, 6))

FormatError == "Invalid equation format. Use \"ax + by = c\""

NoUniqueError == "System has no unique solution (determinant = 0)"

(***************************************************************************)
(* The quadratic panel: coefficient texts and the closed-form solution.    *)
(***************************************************************************)
\* '1', '-5', '6': the defaults of the three coefficient fields
QuadDefaultA == <<"1">>

QuadDefaultB == <<"-", "5">>

QuadDefaultC == <<"6">>

\* texts typed into the field of a: 1, 0, -2, 0.5, -0 and a non-number
QuadATexts == {QuadDefaultA, <<"0">>, <<"-", "2">>, <<"0", ".", "5">>, <<"-", "0">>, <<"a">>}

\* texts typed into the field of b
QuadBTexts == {QuadDefaultB, <<"2">>, <<"0">>, <<"4">>}

\* texts typed into the field of c
QuadCTexts == {QuadDefaultC, <<"1">>, <<"-", "2">>, <<"2">>}

\* r * r <= v * Scale
SquareAtMost(r, v) ==
  \A qr \in {MulDivQR(r, r, Scale)} :
    qr[1] >= 0 /\ (qr[1] < v \/ (qr[1] = v /\ qr[2] = 0))

\* the largest r in lo..hi-1 with r * r <= v * Scale, by bisection
RECURSIVE SqrtSearch(_, _, _)
SqrtSearch(v, lo, hi) ==
  IF hi - lo <= 1 THEN lo
  ELSE CHOOSE r \in {IF SquareAtMost(mid, t[1]) THEN SqrtSearch(t[1], mid, t[3])
                     ELSE SqrtSearch(t[1], t[2], mid) :
                       t \in {<<v, lo, hi>>}, mid \in {(lo + hi) \div 2}} : TRUE

\* Math.sqrt(a): the square root rounded to the nearest representable
\* value, NaN for a negative number
SqrtValue(a) ==
  IF a.nan \/ a.v < 0 THEN NaN
  ELSE \* 45 * 45 exceeds the largest magnitude
       CHOOSE s \in {Num(IF MulDivQR(r, r + 1, Scale)[1] < a.v THEN r + 1 ELSE r) :
                       r \in {SqrtSearch(a.v, 0, 45 * Scale)}} : TRUE

Sqrt(a) == CHOOSE s \in {SqrtValue(t) : t \in {a}} : TRUE

\* a discriminant that leaves out the factor 4
DiscriminantNoFour(a, b, c) == FSub(FMul(b, b), FMul(a, c))

\* b * b - 4 * a * c
Discriminant(a, b, c) == FSub(FMul(b, b), FMul(FMul(Num(4 * Scale), a), c))

\* 2 * a
TwoA(a) == FMul(Num(2 * Scale), a)

\* (-b + Math.sqrt(discriminant)) / (2 * a)
QuadX1(a, b, d) == FDiv(FAdd(Negate(b), Sqrt(d)), TwoA(a))

\* the second root divided by a instead of 2 * a
QuadX2OverA(a, b, d) == FDiv(FSub(Negate(b), Sqrt(d)), a)

\* (-b - Math.sqrt(discriminant)) / (2 * a)
QuadX2(a, b, d) == FDiv(FSub(Negate(b), Sqrt(d)), TwoA(a))

\* -b / (2 * a): the repeated root and the real part of the complex pair
QuadRealPart(a, b) == FDiv(Negate(b), TwoA(a))

\* Math.sqrt(-discriminant) / (2 * a)
QuadImagPart(a, d) == FDiv(Sqrt(Negate(d)), TwoA(a))

\* v.toFixed(4), "NaN" for NaN
FixedText4(v) == IF v.nan THEN NaN ELSE Num(ToFixed(v.v, 4))

\* discriminant > 0
IsPositive(d) == ~d.nan /\ d.v > 0

QuadZeroError == "Coefficient \"a\" cannot be zero for quadratic equation"

\* the text of quadResult: the discriminant d, the case and its two numbers
\* (x1 and x2, the repeated root twice, or the real and the imaginary part)
QuadResultFor(a, b, d) ==
  IF IsPositive(d)
  THEN [kind |-> "Two real roots", disc |-> FixedText4(d),
        x1 |-> FixedText(QuadX1(a, b, d)), x2 |-> FixedText(QuadX2(a, b, d))]
  ELSE IF IsZero(d)
  THEN [kind |-> "One repeated root", disc |-> FixedText4(d),
        x1 |-> FixedText(QuadRealPart(a, b)), x2 |-> FixedText(QuadRealPart(a, b))]
  ELSE [kind |-> "Two complex roots", disc |-> FixedText4(d),
        x1 |-> FixedText(QuadRealPart(a, b)), x2 |-> FixedText(QuadImagPart(a, d))]

\* the result for the coefficients a, b, c
QuadResultOf(a, b, c) ==
  CHOOSE r \in {QuadResultFor(t[1], t[2], t[3]) : t \in {<<a, b, Discriminant(a, b, c)>>}} : TRUE

\* quadResult before the first solution
EmptyQuadResult == [kind |-> "", disc |-> NaN, x1 |-> NaN, x2 |-> NaN]

(***************************************************************************)
(* The MatrixCalculator component.  A matrix is a grid of cell texts: a    *)
(* sequence of rows, each a sequence of strings, counted from 1 (the code  *)
(* counts from 0).                                                         *)
(***************************************************************************)
\* the largest number of rows and of columns the size buttons allow
maxSize == 6

Min(a, b) == IF a < b THEN a ELSE b

\* Array(rows).fill(null).map(() => Array(cols).fill('0'))
Zeros(rows, cols) == [r \in 1..rows |-> [c \in 1..cols |-> "0"]]

\* an identity grid that takes both dimensions from the number of rows
IdentityRowsOnly(rows, cols) ==
  [r \in 1..rows |-> [c \in 1..rows |-> IF r = c THEN "1" ELSE "0"]]

\* the grid that setIdentity builds: '1' where i === j && i < size
Identity(rows, cols) ==
  [r \in 1..rows |-> [c \in 1..cols |->
     IF r = c /\ r <= Min(rows, cols) THEN "1" ELSE "0"]]

\* a resize that keeps the rows it has as they are and gives the new
\* number of columns to added rows only
resizeMatrixAddedRowsOnly(matrix, newRows, newCols) ==
  [r \in 1..newRows |->
     IF r <= Len(matrix) THEN matrix[r] ELSE [c \in 1..newCols |-> "0"]]

\* a resize that starts from an empty grid
resizeMatrixClears(matrix, newRows, newCols) ==
  [r \in 1..newRows |-> [c \in 1..newCols |-> "0"]]

\* resizeMatrix(matrix, newRows, newCols): matrix[i]?.[j] ?? '0'
resizeMatrix(matrix, newRows, newCols) ==
  [r \in 1..newRows |-> [c \in 1..newCols |->
     IF r <= Len(matrix) /\ c <= Len(matrix[r]) THEN matrix[r][c] ELSE "0"]]

\* prev.map(r => [...r]) with newMatrix[row][col] = value
WithCell(matrix, row, col, value) ==
  [matrix EXCEPT ![row] = [matrix[row] EXCEPT ![col] = value]]

\* the operations of the selection list
Operations ==
  {"add", "subtract", "multiply", "determinant", "inverse", "transpose", "eigenvalues", "lu"}

\* the expression that calculate builds: the operation applied to the
\* matrix literals (the second literal only where the operation takes it)
Expression(op, matA, matB) ==
  [op |-> op, a |-> matA, b |-> IF op \in {"add", "subtract", "multiply"} THEN matB ELSE <<>>]

\* texts typed into a cell: a number, or nothing (which leaves a hole in the literal)
CellTexts == {"0", "1", "2", "3", ""}

\* the number a cell text denotes
CellValue(text) ==
  CASE text = "0" -> 0 [] text = "1" -> 1 [] text = "2" -> 2 [] text = "3" -> 3 [] OTHER -> 0

\* the matrix literal parses: no cell is empty
Parses(m) == \A r \in 1..Len(m) : \A c \in 1..Len(m[r]) : m[r][c] # ""

\* the numbers of a grid
Numbers(m) == [r \in 1..Len(m) |-> [c \in 1..Len(m[r]) |-> CellValue(m[r][c])]]

Rows(m) == Len(m)

Cols(m) == IF Len(m) = 0 THEN 0 ELSE Len(m[1])

\* a[r][1] * b[1][c] + ... + a[r][k] * b[k][c]
RECURSIVE DotTo(_, _, _, _, _)
DotTo(a, b, r, c, k) ==
  IF k = 0 THEN 0 ELSE DotTo(a, b, r, c, k - 1) + a[r][k] * b[k][c]

MatMul(a, b) == [r \in 1..Rows(a) |-> [c \in 1..Cols(b) |-> DotTo(a, b, r, c, Cols(a))]]

MatAdd(a, b) == [r \in 1..Rows(a) |-> [c \in 1..Cols(a) |-> a[r][c] + b[r][c]]]

MatSub(a, b) == [r \in 1..Rows(a) |-> [c \in 1..Cols(a) |-> a[r][c] - b[r][c]]]

Transpose(a) == [c \in 1..Cols(a) |-> [r \in 1..Rows(a) |-> a[r][c]]]

\* a without its first row and its column c
Minor(a, c) ==
  [r \in 1..(Rows(a) - 1) |-> [k \in 1..(Cols(a) - 1) |->
     a[r + 1][IF k < c THEN k ELSE k + 1]]]

\* the determinant of a square matrix, expanded along the first row
RECURSIVE MatDet(_)
RECURSIVE DetTermsTo(_, _)
DetTermsTo(a, c) ==
  IF c = 0 THEN 0
  ELSE DetTermsTo(a, c - 1)
         + (IF c % 2 = 1 THEN 1 ELSE -1) * a[1][c] * MatDet(Minor(a, c))

MatDet(a) == IF Rows(a) = 1 THEN a[1][1] ELSE DetTermsTo(a, Cols(a))

SyntaxErrorMessage == "Value expected"

ShapeErrorMessage == "Dimension mismatch"

SquareErrorMessage == "Matrix must be square"

SingularErrorMessage == "Cannot calculate inverse, determinant is zero"

\* the error variant of an EvalResult
EvalError(message) == [error |-> message, value |-> [kind |-> "", m |-> <<>>]]

\* the value variant of an EvalResult
EvalValue(kind, m) == [error |-> "null", value |-> [kind |-> kind, m |-> m]]

\* evaluate(expression) on a matrix expression: the error variant for a
\* literal that does not parse, for matrix arithmetic on incompatible
\* shapes, for the determinant, inverse or eigenvalues of a non-square
\* matrix and for the inverse of a singular one; otherwise the value.  The
\* inverse, the eigenvalues and the decomposition are kept as the
\* operation applied to its argument.
evaluate(e) ==
  IF ~Parses(e.a) \/ ~Parses(e.b) THEN EvalError(SyntaxErrorMessage)
  ELSE LET a == Numbers(e.a)
           b == Numbers(e.b)
       IN CASE e.op = "add" ->
                 IF Rows(a) # Rows(b) \/ Cols(a) # Cols(b) THEN EvalError(ShapeErrorMessage)
                 ELSE EvalValue("matrix", MatAdd(a, b))
            [] e.op = "subtract" ->
                 IF Rows(a) # Rows(b) \/ Cols(a) # Cols(b) THEN EvalError(ShapeErrorMessage)
                 ELSE EvalValue("matrix", MatSub(a, b))
            [] e.op = "multiply" ->
                 IF Cols(a) # Rows(b) THEN EvalError(ShapeErrorMessage)
                 ELSE EvalValue("matrix", MatMul(a, b))
            [] e.op = "determinant" ->
                 IF Rows(a) # Cols(a) THEN EvalError(SquareErrorMessage)
                 ELSE EvalValue("number", <<<<MatDet(a)>>>>)
            [] e.op = "inverse" ->
                 IF Rows(a) # Cols(a) THEN EvalError(SquareErrorMessage)
                 ELSE IF MatDet(a) = 0 THEN EvalError(SingularErrorMessage)
                 ELSE EvalValue("inverse", a)
            [] e.op = "transpose" -> EvalValue("matrix", Transpose(a))
            [] e.op = "eigenvalues" ->
                 IF Rows(a) # Cols(a) THEN EvalError(SquareErrorMessage)
                 ELSE EvalValue("eigenvalues", a)
            [] OTHER -> EvalValue("lup", a)

\* result before the first calculation
EmptyMatrixResult == [kind |-> "", m |-> <<>>]

(***************************************************************************)
(* The PiecewiseCalculator component (src/unnamed/part_001): segments,     *)
(* their domain conditions and the graph data.  A y value is a number or   *)
(* null.                                                                   *)
(***************************************************************************)
NullY == [null |-> TRUE, v |-> 0]

NumberY(n) == [null |-> FALSE, v |-> n]

\* expressions typed into a segment: the text, its coefficients (highest
\* power first) and the way its evaluation fails
ExprSquare == [text |-> <<"x", "^", "2">>, coef |-> <<1, 0, 0>>, fault |-> "none"]

ExprDouble == [text |-> <<"2", "*", "x">>, coef |-> <<2, 0>>, fault |-> "none"]

ExprReciprocal == [text |-> <<"1", "/", "x">>, coef |-> <<>>, fault |-> "reciprocal"]

ExprUnfinished == [text |-> <<"x", " ", "+">>, coef |-> <<>>, fault |-> "syntax"]

ExprEmpty == [text |-> <<>>, coef |-> <<>>, fault |-> "syntax"]

ExprSpaces == [text |-> <<" ", " ">>, coef |-> <<>>, fault |-> "syntax"]

\* the two segments of the initial state
DefaultSegments ==
  << [id |-> "1", expression |-> ExprSquare, condition |-> "lt", value1 |-> <<"0">>,
      value2 |-> <<>>],
     [id |-> "2", expression |-> ExprDouble, condition |-> "gte", value1 |-> <<"0">>,
      value2 |-> <<>>] >>

\* the segment that addSegment appends
AddedSegment(newId) ==
  [id |-> newId, expression |-> ExprEmpty, condition |-> "gt", value1 |-> <<"0">>,
   value2 |-> <<>>]

\* segment lists that adding, editing and removing segments lead to
SegmentLists ==
  { DefaultSegments,
    Append(DefaultSegments, AddedSegment("3")),
    << [id |-> "1", expression |-> ExprReciprocal, condition |-> "between",
        value1 |-> <<"-", "1">>, value2 |-> <<"1">>],
       [id |-> "2", expression |-> ExprSquare, condition |-> "eq", value1 |-> <<"2">>,
        value2 |-> <<>>],
       [id |-> "3", expression |-> ExprUnfinished, condition |-> "lte", value1 |-> <<"3">>,
        value2 |-> <<>>] >>,
    << [id |-> "1", expression |-> ExprSquare, condition |-> "between", value1 |-> <<"0">>,
        value2 |-> <<>>],
       [id |-> "2", expression |-> ExprReciprocal, condition |-> "gt",
        value1 |-> <<"-", "5">>, value2 |-> <<>>],
       [id |-> "3", expression |-> ExprDouble, condition |-> "lte", value1 |-> <<"3">>,
        value2 |-> <<>>],
       [id |-> "4", expression |-> ExprSpaces, condition |-> "gt", value1 |-> <<"0">>,
        value2 |-> <<>>] >>,
    << [id |-> "1", expression |-> ExprSquare, condition |-> "eq",
        value1 |-> <<"0", ".", "5">>, value2 |-> <<>>] >>,
    << >> }

\* the range of the initial state, for x and for y
DefaultRange == [min |-> Num(0 - 10 * Scale), max |-> Num(10 * Scale)]

\* x ranges typed into the two fields: the last one is not min < max
XRanges ==
  { DefaultRange,
    [min |-> Num(0 - Scale), max |-> Num(999 * Scale)],
    [min |-> Num(0), max |-> Num(Scale)],
    [min |-> Num(5 * Scale), max |-> Num(0 - 5 * Scale)] }

\* y ranges typed into the two fields
YRanges == {DefaultRange, [min |-> Num(0), max |-> Num(5 * Scale)]}

numPoints == 500

\* a < b, a <= b on numbers; false when either is NaN
Less(a, b) == ~a.nan /\ ~b.nan /\ a.v < b.v

LessEq(a, b) == ~a.nan /\ ~b.nan /\ a.v <= b.v

\* evaluateCondition(x, segment)
evaluateCondition(x, segment) ==
  \A v1 \in {ParseFloat(segment.value1)}, v2 \in {ParseFloat(segment.value2)} :
    CASE segment.condition = "lt" -> Less(x, v1)
      [] segment.condition = "lte" -> LessEq(x, v1)
      [] segment.condition = "gt" -> Less(v1, x)
      [] segment.condition = "gte" -> LessEq(v1, x)
      [] segment.condition = "eq" -> AbsLt(FSub(x, v1), 2)
      [] segment.condition = "between" -> Less(v1, x) /\ Less(x, v2)
      [] OTHER -> FALSE

\* segment.expression.trim() is not empty
NotBlank(expression) == \E k \in 1..Len(expression.text) : ~IsSpace(expression.text[k])

\* the evaluator's value of the expression at x, as the sampler keeps it:
\* null when the evaluator reports an error or the value is not finite
SampleValue(expression, x) ==
  CHOOSE r \in { IF y.nan THEN NullY ELSE NumberY(y.v) :
                   y \in { IF x.nan \/ expression.fault = "syntax" THEN NaN
                           ELSE IF expression.fault = "reciprocal" THEN FDiv(Num(Scale), x)
                           ELSE Horner(expression.coef, x) } } : TRUE

\* generateGraphPoints(expression, xStart, xEnd, count): count points in
\* ascending x from xStart on, one every (xEnd - xStart) / count
generateGraphPoints(expression, xStart, xEnd, count) ==
  [k \in 1..count |->
     CHOOSE pt \in { [x |-> px, y |-> SampleValue(expression, px)] :
                      px \in {FAdd(xStart, FMul(Num((k - 1) * Scale),
                                                FDiv(FSub(xEnd, xStart), Num(count * Scale))))} } :
       TRUE]

\* (xRange.max - xRange.min) / numPoints
StepOf(range) == FDiv(FSub(range.max, range.min), Num(numPoints * Scale))

\* step / 2
HalfStep(step) == FDiv(step, Num(2 * Scale))

\* a test of the segment that looks at its expression only
ShouldSampleAnyX(x, segment) == NotBlank(segment.expression)

\* segment.expression.trim() && evaluateCondition(x, segment)
ShouldSample(x, segment) == NotBlank(segment.expression) /\ evaluateCondition(x, segment)

\* a window test without the lower end
InWindowUpperOnly(y, range) == ~y.null /\ LessEq(Num(y.v), range.max)

\* y !== undefined && isFinite(y) && y >= yRange.min && y <= yRange.max,
\* for a y that is not null
InWindow(y, range) ==
  ~y.null /\ LessEq(range.min, Num(y.v)) /\ LessEq(Num(y.v), range.max)

\* the value stored for the segment at x: the first sampled point around x
\* when it lies in the window, else null
SegmentY(segment, x, step, range) ==
  IF ShouldSample(x, segment)
  THEN CHOOSE r \in { IF InWindow(y, range) THEN y ELSE NullY :
                        y \in {generateGraphPoints(segment.expression, FSub(x, HalfStep(step)),
                                                   FAdd(x, HalfStep(step)), 1)[1].y} } : TRUE
  ELSE NullY

\* the ids of the segments
SegmentIds(segs) == {segs[k].id : k \in 1..Len(segs)}

\* the last segment with the id: forEach assigns point[segment.id] in order
LastWithId(segs, id) ==
  segs[CHOOSE k \in 1..Len(segs) :
         segs[k].id = id /\ \A j \in (k + 1)..Len(segs) : segs[j].id # id]

\* the point built for x
PointAt(segs, x, step, range) ==
  [x |-> x, y |-> [id \in SegmentIds(segs) |-> SegmentY(LastWithId(segs, id), x, step, range)]]

\* a loop test that stops one point early
MorePointsExclusive(n) == n < numPoints

\* i <= numPoints
MorePoints(n) == n <= numPoints

(***************************************************************************)
(* The ComplexCalculator component (src/unnamed/part_000).  The texts of   *)
(* its four fields go into the expression as they are; a complex number is *)
(* a pair <<re, im>> of integers.                                          *)
(***************************************************************************)
\* texts typed into the fields: a number, nothing (which leaves a hole in
\* the expression) or a name the evaluator does not know
RealATexts == {"3", "0", "", "q"}

ImagATexts == {"4", "0"}

RealBTexts == {"1", "0"}

ImagBTexts == {"2", "0", ""}

\* the operations of the buttons
ComplexOperations ==
  {"add", "subtract", "multiply", "divide", "magnitude", "argument", "conjugate", "polar",
   "sqrt", "power", "exp", "log"}

\* `complex(${realA}, ${imagA})`
ComplexLiteral(re, im) == <<re, im>>

\* abs(a) and arg(a), the two expressions of the polar case
MagnitudeOf(a) == [fn |-> "abs", args |-> <<a>>]

ArgumentOf(a) == [fn |-> "arg", args |-> <<a>>]

\* expr stays '' in the polar case
EmptyExpr == [fn |-> "", args |-> <<>>]

\* the expression that the switch of calculate builds
ComplexExpression(op, a, b) ==
  CASE op = "add" -> [fn |-> "+", args |-> <<a, b>>]
    [] op = "subtract" -> [fn |-> "-", args |-> <<a, b>>]
    [] op = "multiply" -> [fn |-> "*", args |-> <<a, b>>]
    [] op = "divide" -> [fn |-> "/", args |-> <<a, b>>]
    [] op = "magnitude" -> MagnitudeOf(a)
    [] op = "argument" -> ArgumentOf(a)
    [] op = "conjugate" -> [fn |-> "conj", args |-> <<a>>]
    [] op = "power" -> [fn |-> "pow", args |-> <<a>>]
    [] op = "sqrt" -> [fn |-> "sqrt", args |-> <<a>>]
    [] op = "exp" -> [fn |-> "exp", args |-> <<a>>]
    [] op = "log" -> [fn |-> "log", args |-> <<a>>]
    [] OTHER -> EmptyExpr

\* the number a field text denotes
FieldValue(text) ==
  CASE text = "0" -> 0 [] text = "1" -> 1 [] text = "2" -> 2 [] text = "3" -> 3
    [] text = "4" -> 4 [] OTHER -> 0

ComplexNumber(lit) == <<FieldValue(lit[1]), FieldValue(lit[2])>>

ComplexMul(a, b) == <<a[1] * b[1] - a[2] * b[2], a[1] * b[2] + a[2] * b[1]>>

UndefinedSymbolMessage == "Undefined symbol q"

DivisionByZeroMessage == "Division by zero"

\* evaluate(expression) on a complex expression: the error variant for a
\* hole in a literal, for an unknown name and for a division by zero;
\* otherwise the value.  Sums, differences, products, conjugates and
\* squares are computed; the other functions are kept as the function
\* applied to its arguments.
evaluateComplex(e) ==
  IF \E k \in 1..Len(e.args) : e.args[k][1] = "" \/ e.args[k][2] = ""
  THEN EvalError(SyntaxErrorMessage)
  ELSE IF \E k \in 1..Len(e.args) : e.args[k][1] = "q" \/ e.args[k][2] = "q"
  THEN EvalError(UndefinedSymbolMessage)
  ELSE LET z == [k \in 1..Len(e.args) |-> ComplexNumber(e.args[k])]
       IN CASE e.fn = "+" -> EvalValue("complex", <<<<z[1][1] + z[2][1], z[1][2] + z[2][2]>>>>)
            [] e.fn = "-" -> EvalValue("complex", <<<<z[1][1] - z[2][1], z[1][2] - z[2][2]>>>>)
            [] e.fn = "*" -> EvalValue("complex", <<ComplexMul(z[1], z[2])>>)
            [] e.fn = "/" ->
                 IF z[2] = <<0, 0>> THEN EvalError(DivisionByZeroMessage)
                 ELSE EvalValue("/", z)
            [] e.fn = "conj" -> EvalValue("complex", <<<<z[1][1], -z[1][2]>>>>)
            [] e.fn = "pow" -> EvalValue("complex", <<ComplexMul(z[1], z[1])>>)
            [] OTHER -> EvalValue(e.fn, z)

\* `r = ${rResult.value}, theta = ${thetaResult.value} rad`
PolarText(r, theta) == [kind |-> "polar", m |-> r.m \o theta.m]

\* '' before the first calculation
EmptyComplexResult == [kind |-> "", m |-> <<>>]

(***************************************************************************)
(* The BaseConverter component                                             *)
(* (src/src/components/calculator/BaseConverter.tsx).  A text is a         *)
(* sequence of one-character strings, a number a non-negative integer or   *)
(* NaN.                                                                    *)
(***************************************************************************)
\* type Base
Bases == {"2", "8", "10", "16"}

\* parseInt(fromBase)
Radix(base) ==
  CASE base = "2" -> 2 [] base = "8" -> 8 [] base = "10" -> 10 [] OTHER -> 16

\* the digits of toString(radix).toUpperCase()
DigitChars ==
  <<"0", "1", "2", "3", "4", "5", "6", "7", "8", "9", "A", "B", "C", "D", "E", "F">>

LowerChars == <<"a", "b", "c", "d", "e", "f">>

\* the value of a character as a digit, 99 for a character that is no digit
HexDigitValue(c) ==
  IF \E d \in 1..16 : DigitChars[d] = c
  THEN (CHOOSE d \in 1..16 : DigitChars[d] = c) - 1
  ELSE IF \E d \in 1..6 : LowerChars[d] = c
  THEN (CHOOSE d \in 1..6 : LowerChars[d] = c) + 9
  ELSE 99

\* a pattern that accepts the hexadecimal digits whatever the base
validateInputAsHex(value, base) ==
  \A k \in 1..Len(value) : HexDigitValue(value[k]) < 16

\* validateInput(value, base): patterns[base].test(value), the patterns
\* being ^[01]*$, ^[0-7]*$, ^[0-9]*$ and ^[0-9A-Fa-f]*$
validateInput(value, base) ==
  \A k \in 1..Len(value) : HexDigitValue(value[k]) < Radix(base)

IntNaN == [nan |-> TRUE, v |-> 0]

IntNumber(n) == [nan |-> FALSE, v |-> n]

\* the value of the longest run of digits of the radix that starts at p,
\* given the value acc of the digits before p
RECURSIVE DigitsValue(_, _, _, _)
DigitsValue(s, p, radix, acc) ==
  IF p <= Len(s) /\ HexDigitValue(s[p]) < radix
  THEN DigitsValue(s, p + 1, radix, acc * radix + HexDigitValue(s[p]))
  ELSE acc

\* parseInt(s, radix): an optional sign and the longest run of digits of
\* the radix; NaN when there is no digit
parseInt(s, radix) ==
  LET neg == Len(s) > 0 /\ s[1] = "-"
      from == IF Len(s) > 0 /\ s[1] \in {"-", "+"} THEN 2 ELSE 1
  IN IF from > Len(s) \/ HexDigitValue(s[from]) >= radix THEN IntNaN
     ELSE IntNumber((IF neg THEN -1 ELSE 1) * DigitsValue(s, from, radix, 0))

\* decimal.toString(radix), in upper case, of a non-negative integer
RECURSIVE ToText(_, _)
ToText(n, radix) ==
  IF n < radix THEN <<DigitChars[n + 1]>>
  ELSE Append(ToText(n \div radix, radix), DigitChars[(n % radix) + 1])

\* a table that fills every base with the decimal text
RepresentationsDecimalOnly(decimal) == [b \in Bases |-> ToText(decimal, 10)]

\* the object that convert passes to setResults
Representations(decimal) == [b \in Bases |-> ToText(decimal, Radix(b))]

\* useState('255')
DefaultInput == <<"2", "5", "5">>

\* the initial value of results
DefaultResults ==
  [b \in Bases |->
     CASE b = "2" -> <<"1", "1", "1", "1", "1", "1", "1", "1">>
       [] b = "8" -> <<"3", "7", "7">>
       [] b = "10" -> <<"2", "5", "5">>
       [] OTHER -> <<"F", "F">>]

\* the values of the Common Values buttons
CommonValues ==
  {<<"2", "5", "5">>, <<"6", "5", "5", "3", "5">>, <<"2", "5", "6">>, <<"1", "0", "2", "4">>}

\* texts that arrive as e.target.value
InputTexts == {<<"1", "0", "1">>, <<"7", "F">>, <<"9">>, <<"-", "5">>, <<>>}

\* `Invalid ${baseLabels[fromBase].toLowerCase()} number`
InvalidNumberError(base) ==
  CASE base = "2" -> "Invalid binary (base 2) number"
    [] base = "8" -> "Invalid octal (base 8) number"
    [] base = "10" -> "Invalid decimal (base 10) number"
    [] OTHER -> "Invalid hexadecimal (base 16) number"

NegativeError == "Please enter a non-negative number"

\* the delay of the timeout that resets copiedBase
resetDelay == 2000

\* the time passes in steps of a quarter of the delay
TickMs == resetDelay \div 4

(***************************************************************************)
(* The Index page (src/src/pages/Index.tsx) and the modes of the           *)
(* navigation (src/unnamed/part_003).                                      *)
(***************************************************************************)
\* the ids of the modes array, each with a button in both navigations
Modes ==
  {"scientific", "graphing", "piecewise", "calculus", "matrix", "equations", "complex",
   "statistics", "physics", "physics3d", "units", "base", "errors"}

\* renderCalculator: the switch over activeMode with its default
renderCalculator(mode) ==
  CASE mode = "scientific" -> "ScientificCalculator"
    [] mode = "graphing" -> "GraphingCalculator"
    [] mode = "piecewise" -> "PiecewiseCalculator"
    [] mode = "calculus" -> "CalculusCalculator"
    [] mode = "matrix" -> "MatrixCalculator"
    [] mode = "equations" -> "EquationSolver"
    [] mode = "complex" -> "ComplexCalculator"
    [] mode = "statistics" -> "StatisticsCalculator"
    [] mode = "physics" -> "PhysicsCalculator"
    [] mode = "units" -> "UnitConverter"
    [] mode = "base" -> "BaseConverter"
    [] mode = "errors" -> "ErrorChecker"
    [] OTHER -> "ScientificCalculator"

(***************************************************************************)
(* State of the EquationSolver component and of a running findRoots call.  *)
(***************************************************************************)
VARIABLES polynomial, polyResult, error, pc, start, x, i, roots,
          eq1, eq2, systemResult,
          quadA, quadB, quadC, quadResult,
          rowsA, colsA, rowsB, colsB, matrixA, matrixB, operation, result, matrixError,
          segments, xRange, yRange, graphData, data, pointIndex, graphPc, sampleCalls,
          candidates, badResidual, visitOrder, merged, rootsSeedOrder, rootsOtherOrder,
          mergePhase,
          realA, imagA, realB, imagB, complexResult, complexError,
          inputValue, fromBase, results, converterError, lastEvent, convertTimers,
          copiedBase, clipboard, resetTimers, now,
          activeMode, mounted

\* the converged candidates of one search, merged in two orders (the
\* acceptance and the sort of findRoots applied to a given candidate list)
mergeVars ==
  <<candidates, badResidual, visitOrder, merged, rootsSeedOrder, rootsOtherOrder, mergePhase>>

\* the quadratic panel of the component
quadVars == <<quadA, quadB, quadC, quadResult>>

\* the state of the MatrixCalculator component (matrixError is its error)
matrixVars ==
  <<rowsA, colsA, rowsB, colsB, matrixA, matrixB, operation, result, matrixError>>

\* the state of the PiecewiseCalculator component: its three state values,
\* the memoized graphData, and the run of the function that computes it
\* (data, the loop index, the position, the calls of the sampler so far)
piecewiseVars ==
  <<segments, xRange, yRange, graphData, data, pointIndex, graphPc, sampleCalls>>

\* the state of the ComplexCalculator component (complexResult and
\* complexError are its result and error)
complexVars == <<realA, imagA, realB, imagB, complexResult, complexError>>

\* the state of the BaseConverter component (converterError is its error),
\* the handler that ran last, the pending timeouts of setTimeout(convert, 0)
\* (each the inputValue and fromBase that its convert closes over) and of
\* the reset of copiedBase (each the time it is due), the clipboard and the
\* time in milliseconds
converterVars ==
  <<inputValue, fromBase, results, converterError, lastEvent, convertTimers,
    copiedBase, clipboard, resetTimers, now>>

\* the state of the Index page: the mode and the calculator component that
\* is mounted
indexVars == <<activeMode, mounted>>

\* the state of the components of the other modes and of the page
pageVars == <<complexVars, converterVars, indexVars>>

\* the state of the other panels of the calculator
panelVars == <<matrixVars, piecewiseVars, pageVars>>

vars ==
  <<polynomial, polyResult, error, pc, start, x, i, roots, eq1, eq2, systemResult,
    mergeVars, quadVars, panelVars>>

\* the state that findRoots and the polynomial field leave alone
systemVars == <<eq1, eq2, systemResult, mergeVars, quadVars, panelVars>>

\* the state that solveSystem and the equation fields leave alone
rootsVars ==
  <<polynomial, polyResult, pc, start, x, i, roots, mergeVars, quadVars, panelVars>>

\* the state of the component
solverVars ==
  <<polynomial, polyResult, error, pc, start, x, i, roots, eq1, eq2, systemResult, quadVars,
    panelVars>>

\* the state of the EquationSolver component
equationSolverVars ==
  <<polynomial, polyResult, error, pc, start, x, i, roots, eq1, eq2, systemResult, quadVars,
    mergeVars>>

\* the state that solveQuadratic and the coefficient fields leave alone
notQuadVars ==
  <<polynomial, polyResult, pc, start, x, i, roots, eq1, eq2, systemResult, mergeVars,
    panelVars>>

\* policy values of findRoots
toleranceExp == 10

maxIterations == 100

derivExp == 15

dedupExp == 4

residualExp == 4

startMin == -10

startMax == 10

\* start += 0.5
startStep == Scale \div 2

EmptyResult == [kind |-> "empty", xs |-> <<>>]

NoRootsResult == [kind |-> "none", xs |-> <<>>]

\* insert v into the ascending sequence s
RECURSIVE Insert(_, _)
Insert(s, v) ==
  IF Len(s) = 0 THEN <<v>>
  ELSE IF v < s[1] THEN <<v>> \o s
  ELSE <<s[1]>> \o Insert(Tail(s), v)

\* insert v into the descending sequence s
RECURSIVE InsertDesc(_, _)
InsertDesc(s, v) ==
  IF Len(s) = 0 THEN <<v>>
  ELSE IF v > s[1] THEN <<v>> \o s
  ELSE <<s[1]>> \o InsertDesc(Tail(s), v)

\* a sort with the comparator reversed: (a, b) => b - a
RECURSIVE SortDesc(_)
SortDesc(s) == IF Len(s) = 0 THEN <<>> ELSE InsertDesc(SortDesc(Tail(s)), s[1])

\* roots.sort((a, b) => a - b)
RECURSIVE SortAsc(_)
SortAsc(s) == IF Len(s) = 0 THEN <<>> ELSE Insert(SortAsc(Tail(s)), s[1])

\* the text of polyResult for a sorted root list: one toFixed(6) per root
RootsResult(rs) == [kind |-> "roots", xs |-> [k \in 1..Len(rs) |-> ToFixed(rs[k], 6)]]

\* a duplicate test that looks at the last accepted root only
IsNewLastOnly(rs, xNew) ==
  Len(rs) = 0 \/ ~AbsLt(FSub(Num(rs[Len(rs)]), xNew), dedupExp)

\* !roots.some(r => Math.abs(r - xNew) < 0.0001)
IsNew(rs, xNew) ==
  ~ \E k \in 1..Len(rs) : AbsLt(FSub(Num(rs[k]), xNew), dedupExp)

\* an acceptance that forgets the residual test
AcceptNoResidual(rs, xNew, fNew) ==
  IF IsNew(rs, xNew) THEN Append(rs, xNew.v) ELSE rs

\* if (isNew && Math.abs(f.evaluate({ x: xNew })) < 0.0001) roots.push(xNew),
\* for a converged xNew whose residual f(xNew) is fNew
Accept(rs, xNew, fNew) ==
  IF IsNew(rs, xNew) /\ AbsLt(fNew, residualExp) THEN Append(rs, xNew.v) ELSE rs

\* a derivative test that never fires
NearZeroNever(dfx) == FALSE

\* Math.abs(dfx) < 1e-15
NearZero(dfx) == AbsLt(dfx, derivExp)

\* a loop test that is off by one: i <= maxIterations
LoopGuardOffByOne(n) == n <= maxIterations

\* the test of the Newton loop: i < maxIterations
LoopGuard(n) == n < maxIterations

\* "" before the first solve
EmptySystemResult == [kind |-> "empty", x |-> Num(0), y |-> Num(0)]

\* the component after construction
InitSolver ==
  /\ quadA = QuadDefaultA
  /\ quadB = QuadDefaultB
  /\ quadC = QuadDefaultC
  /\ quadResult = EmptyQuadResult
  /\ eq1 = EqDefault1
  /\ eq2 = EqDefault2
  /\ systemResult = EmptySystemResult
  /\ polynomial = Cubic
  /\ polyResult = EmptyResult
  /\ error = "null"
  /\ pc = "idle"
  /\ start = 0
  /\ x = Num(0)
  /\ i = 0
  /\ roots = <<>>

\* the state after construction: two 3 x 3 grids of '0', multiply selected
InitMatrix ==
  /\ rowsA = 3 /\ colsA = 3 /\ rowsB = 3 /\ colsB = 3
  /\ matrixA = Zeros(3, 3)
  /\ matrixB = Zeros(3, 3)
  /\ operation = "multiply"
  /\ result = EmptyMatrixResult
  /\ matrixError = "null"

\* the PiecewiseCalculator after construction, about to compute graphData
\* for its first render
InitPiecewise ==
  /\ segments = DefaultSegments
  /\ xRange = DefaultRange
  /\ yRange = DefaultRange
  /\ graphData = <<>>
  /\ data = <<>>
  /\ pointIndex = 0
  /\ graphPc = "sample"
  /\ sampleCalls = {}

NoMerge ==
  /\ candidates = <<>>
  /\ badResidual = {}
  /\ visitOrder = <<>>
  /\ merged = 0
  /\ rootsSeedOrder = <<>>
  /\ rootsOtherOrder = <<>>
  /\ mergePhase = "sorted"

\* the ComplexCalculator after construction
InitComplex ==
  /\ realA = "3" /\ imagA = "4" /\ realB = "1" /\ imagB = "2"
  /\ complexResult = EmptyComplexResult
  /\ complexError = "null"

\* the BaseConverter after construction
InitConverter ==
  /\ inputValue = DefaultInput
  /\ fromBase = "10"
  /\ results = DefaultResults
  /\ converterError = "null"
  /\ lastEvent = "none"
  /\ convertTimers = <<>>
  /\ copiedBase = "null"
  /\ clipboard = <<>>
  /\ resetTimers = <<>>
  /\ now = 0

\* the Index page after construction
InitIndex ==
  /\ activeMode = "scientific"
  /\ mounted = renderCalculator("scientific")

InitPages == InitComplex /\ InitConverter /\ InitIndex

Init == InitSolver /\ NoMerge /\ InitMatrix /\ InitPiecewise /\ InitPages

\* onChange of the polynomial field
setPolynomial ==
  /\ pc = "idle"
  /\ \E p \in Polynomials : polynomial' = p
  /\ UNCHANGED <<polyResult, error, pc, start, x, i, roots>>
  /\ UNCHANGED systemVars

\* click on Find Roots: setError(null), compile f and f', empty root list
findRoots ==
  /\ pc = "idle"
  /\ IF polynomial.fault = "syntax"
     THEN /\ error' = ThrownMessage(polynomial)
          /\ UNCHANGED <<pc, start, roots>>
     ELSE /\ error' = "null"
          /\ pc' = "seed"
          /\ start' = startMin * Scale
          /\ roots' = <<>>
  /\ UNCHANGED <<polynomial, polyResult, x, i>>
  /\ UNCHANGED systemVars

\* head of the seed loop with start <= 10: let x = start, i = 0
seedLoop ==
  /\ pc = "seed"
  /\ start <= startMax * Scale
  /\ x' = Num(start)
  /\ i' = 0
  /\ pc' = "iter"
  /\ UNCHANGED <<polynomial, polyResult, error, start, roots>>
  /\ UNCHANGED systemVars

\* leave the inner loop: next seed
NextSeed == /\ pc' = "seed" /\ start' = start + startStep /\ x' = Num(0) /\ i' = 0

\* a catch clause placed inside the seed loop: only the seed is given up
CatchSkipSeed == NextSeed /\ UNCHANGED <<polynomial, polyResult, error, roots>>

\* the catch clause: the call ends with the error message set
Catch ==
  /\ error' = ThrownMessage(polynomial)
  /\ pc' = "idle"
  /\ start' = 0 /\ x' = Num(0) /\ i' = 0 /\ roots' = <<>>
  /\ UNCHANGED <<polynomial, polyResult>>

\* one pass through the body of the Newton loop (i < maxIterations)
newtonIter ==
  /\ pc = "iter"
  /\ LoopGuard(i)
  /\ IF EvalThrows(polynomial, x) THEN Catch
     ELSE \E fx \in {EvalF(polynomial, x)}, dfx \in {EvalDF(polynomial, x)} :
          \E xNew \in {FSub(x, FDiv(fx, dfx))} :
             IF NearZero(dfx)
             THEN NextSeed /\ UNCHANGED <<polynomial, polyResult, error, roots>>
             ELSE IF AbsLt(FSub(xNew, x), toleranceExp)
             THEN IF IsNew(roots, xNew) /\ EvalThrows(polynomial, xNew) THEN Catch
                  ELSE /\ roots' = Accept(roots, xNew, EvalF(polynomial, xNew))
                       /\ NextSeed
                       /\ UNCHANGED <<polynomial, polyResult, error>>
             ELSE /\ x' = xNew
                  /\ i' = i + 1
                  /\ UNCHANGED <<polynomial, polyResult, error, pc, start, roots>>
  /\ UNCHANGED systemVars

\* the Newton loop ends because i reached maxIterations
iterExhausted ==
  /\ pc = "iter"
  /\ ~LoopGuard(i)
  /\ NextSeed
  /\ UNCHANGED <<polynomial, polyResult, error, roots>>
  /\ UNCHANGED systemVars

\* a report that signals an empty root list as an error
reportNoRootsAsError ==
  /\ pc = "seed"
  /\ start > startMax * Scale
  /\ IF Len(roots) = 0
     THEN error' = "No real roots found in range [-10, 10]" /\ UNCHANGED polyResult
     ELSE polyResult' = RootsResult(SortAsc(roots)) /\ UNCHANGED error
  /\ pc' = "idle"
  /\ start' = 0 /\ x' = Num(0) /\ i' = 0 /\ roots' = <<>>
  /\ UNCHANGED polynomial
  /\ UNCHANGED systemVars

\* after the last seed: sort the roots and set polyResult
report ==
  /\ pc = "seed"
  /\ start > startMax * Scale
  /\ polyResult' = IF Len(roots) = 0 THEN NoRootsResult ELSE RootsResult(SortAsc(roots))
  /\ pc' = "idle"
  /\ start' = 0 /\ x' = Num(0) /\ i' = 0 /\ roots' = <<>>
  /\ UNCHANGED <<polynomial, error>>
  /\ UNCHANGED systemVars

NextRoots == setPolynomial \/ findRoots \/ seedLoop \/ newtonIter \/ iterExhausted \/ report

SpecRoots == Init /\ [][NextRoots]_vars

\* onChange of the first equation field
setEq1 ==
  /\ pc = "idle"
  /\ \E t \in EqTexts : eq1' = t
  /\ UNCHANGED <<eq2, systemResult, error>>
  /\ UNCHANGED rootsVars

\* onChange of the second equation field
setEq2 ==
  /\ pc = "idle"
  /\ \E t \in EqTexts : eq2' = t
  /\ UNCHANGED <<eq1, systemResult, error>>
  /\ UNCHANGED rootsVars

\* a solveSystem whose null test looks at the first equation only
solveSystemChecksFirstOnly ==
  /\ pc = "idle"
  /\ LET parsed1 == parseEquation(eq1)
         parsed2 == parseEquation(eq2)
         det == Det(parsed1, parsed2)
     IN IF ~parsed1.ok
        THEN /\ error' = FormatError
             /\ UNCHANGED systemResult
        ELSE IF IsZero(det)
        THEN /\ error' = NoUniqueError
             /\ UNCHANGED systemResult
        ELSE /\ error' = "null"
             /\ systemResult' = [kind |-> "solution",
                                 x |-> FixedText(CramerX(parsed1, parsed2)),
                                 y |-> FixedText(CramerY(parsed1, parsed2))]
  /\ UNCHANGED <<eq1, eq2>>
  /\ UNCHANGED rootsVars

\* click on Solve System
solveSystem ==
  /\ pc = "idle"
  /\ LET parsed1 == parseEquation(eq1)
         parsed2 == parseEquation(eq2)
         det == Det(parsed1, parsed2)
     IN IF ~parsed1.ok \/ ~parsed2.ok
        THEN /\ error' = FormatError
             /\ UNCHANGED systemResult
        ELSE IF IsZero(det)
        THEN /\ error' = NoUniqueError
             /\ UNCHANGED systemResult
        ELSE /\ error' = "null"
             /\ systemResult' = [kind |-> "solution",
                                 x |-> FixedText(CramerX(parsed1, parsed2)),
                                 y |-> FixedText(CramerY(parsed1, parsed2))]
  /\ UNCHANGED <<eq1, eq2>>
  /\ UNCHANGED rootsVars

NextSystem == setEq1 \/ setEq2 \/ solveSystem

SpecSystem == Init /\ [][NextSystem]_vars

\* onChange of the field of a
setQuadA ==
  /\ pc = "idle"
  /\ \E t \in QuadATexts : quadA' = t
  /\ UNCHANGED <<quadB, quadC, quadResult, error>>
  /\ UNCHANGED notQuadVars

\* onChange of the field of b
setQuadB ==
  /\ pc = "idle"
  /\ \E t \in QuadBTexts : quadB' = t
  /\ UNCHANGED <<quadA, quadC, quadResult, error>>
  /\ UNCHANGED notQuadVars

\* onChange of the field of c
setQuadC ==
  /\ pc = "idle"
  /\ \E t \in QuadCTexts : quadC' = t
  /\ UNCHANGED <<quadA, quadB, quadResult, error>>
  /\ UNCHANGED notQuadVars

\* a solveQuadratic without the test of a
solveQuadraticNoZeroTest ==
  /\ pc = "idle"
  /\ \E a \in {ParseFloat(quadA)}, b \in {ParseFloat(quadB)}, c \in {ParseFloat(quadC)} :
       /\ error' = "null"
       /\ quadResult' = QuadResultOf(a, b, c)
  /\ UNCHANGED <<quadA, quadB, quadC>>
  /\ UNCHANGED notQuadVars

\* click on Solve
solveQuadratic ==
  /\ pc = "idle"
  /\ \E a \in {ParseFloat(quadA)}, b \in {ParseFloat(quadB)}, c \in {ParseFloat(quadC)} :
       IF IsZero(a)
       THEN /\ error' = QuadZeroError
            /\ UNCHANGED quadResult
       ELSE /\ error' = "null"
            /\ quadResult' = QuadResultOf(a, b, c)
  /\ UNCHANGED <<quadA, quadB, quadC>>
  /\ UNCHANGED notQuadVars

NextQuad == setQuadA \/ setQuadB \/ setQuadC \/ solveQuadratic

SpecQuad == Init /\ [][NextQuad]_vars

\* the state that the MatrixCalculator leaves alone
notMatrixVars == <<equationSolverVars, piecewiseVars, pageVars>>

\* the size buttons of matrix A: one row or one column more or less,
\* within 1..maxSize
handleResizeA ==
  /\ \E d \in {<<-1, 0>>, <<1, 0>>, <<0, -1>>, <<0, 1>>} :
       /\ rowsA + d[1] \in 1..maxSize
       /\ colsA + d[2] \in 1..maxSize
       /\ rowsA' = rowsA + d[1]
       /\ colsA' = colsA + d[2]
       /\ matrixA' = resizeMatrix(matrixA, rowsA + d[1], colsA + d[2])
  /\ UNCHANGED <<rowsB, colsB, matrixB, operation, result, matrixError>>
  /\ UNCHANGED notMatrixVars

\* the size buttons of matrix B
handleResizeB ==
  /\ \E d \in {<<-1, 0>>, <<1, 0>>, <<0, -1>>, <<0, 1>>} :
       /\ rowsB + d[1] \in 1..maxSize
       /\ colsB + d[2] \in 1..maxSize
       /\ rowsB' = rowsB + d[1]
       /\ colsB' = colsB + d[2]
       /\ matrixB' = resizeMatrix(matrixB, rowsB + d[1], colsB + d[2])
  /\ UNCHANGED <<rowsA, colsA, matrixA, operation, result, matrixError>>
  /\ UNCHANGED notMatrixVars

\* click on Identity of matrix A (isA) or of matrix B
setIdentity(isA) ==
  /\ IF isA
     THEN matrixA' = Identity(rowsA, colsA) /\ UNCHANGED matrixB
     ELSE matrixB' = Identity(rowsB, colsB) /\ UNCHANGED matrixA
  /\ UNCHANGED <<rowsA, colsA, rowsB, colsB, operation, result, matrixError>>
  /\ UNCHANGED notMatrixVars

\* click on Clear of matrix A (isA) or of matrix B
clearMatrix(isA) ==
  /\ IF isA
     THEN matrixA' = Zeros(rowsA, colsA) /\ UNCHANGED matrixB
     ELSE matrixB' = Zeros(rowsB, colsB) /\ UNCHANGED matrixA
  /\ UNCHANGED <<rowsA, colsA, rowsB, colsB, operation, result, matrixError>>
  /\ UNCHANGED notMatrixVars

NextMatrixEdit ==
  \/ handleResizeA
  \/ handleResizeB
  \/ \E isA \in BOOLEAN : setIdentity(isA)
  \/ \E isA \in BOOLEAN : clearMatrix(isA)

\* the grids under the size buttons and the Identity and Clear buttons
SpecMatrixEdit == Init /\ [][NextMatrixEdit]_vars

\* largest number of rows and columns of the matrices that are calculated with
MaxCalcDim == 3

\* sizes and grids that the size, Identity and Clear buttons lead to
InitCalc ==
  /\ InitSolver
  /\ NoMerge
  /\ InitPiecewise
  /\ InitPages
  /\ rowsA \in 1..MaxCalcDim /\ colsA \in 1..MaxCalcDim
  /\ rowsB \in 1..MaxCalcDim /\ colsB \in 1..MaxCalcDim
  /\ matrixA \in {Zeros(rowsA, colsA), Identity(rowsA, colsA)}
  /\ matrixB = Identity(rowsB, colsB)
  /\ operation = "multiply"
  /\ result = EmptyMatrixResult
  /\ matrixError = "null"

\* onChange of the first cell of matrix A
updateMatrixA ==
  /\ \E value \in {"2", ""} : matrixA' = WithCell(matrixA, 1, 1, value)
  /\ UNCHANGED <<rowsA, colsA, rowsB, colsB, matrixB, operation, result, matrixError>>
  /\ UNCHANGED notMatrixVars

\* onChange of the first cell of matrix B
updateMatrixB ==
  /\ \E value \in {"3"} : matrixB' = WithCell(matrixB, 1, 1, value)
  /\ UNCHANGED <<rowsA, colsA, rowsB, colsB, matrixA, operation, result, matrixError>>
  /\ UNCHANGED notMatrixVars

\* a choice in the selection list
setOperation ==
  /\ \E op \in Operations : operation' = op
  /\ UNCHANGED <<rowsA, colsA, rowsB, colsB, matrixA, matrixB, result, matrixError>>
  /\ UNCHANGED notMatrixVars

\* a calculate that stores the value variant whatever the evaluator returned
calculateIgnoresError ==
  /\ \E calcResult \in {evaluate(Expression(operation, matrixA, matrixB))} :
       /\ matrixError' = "null"
       /\ result' = calcResult.value
  /\ UNCHANGED <<rowsA, colsA, rowsB, colsB, matrixA, matrixB, operation>>
  /\ UNCHANGED notMatrixVars

\* click on Calculate
calculate ==
  /\ \E calcResult \in {evaluate(Expression(operation, matrixA, matrixB))} :
       IF calcResult.error # "null"
       THEN /\ matrixError' = calcResult.error
            /\ UNCHANGED result
       ELSE /\ matrixError' = "null"
            /\ result' = calcResult.value
  /\ UNCHANGED <<rowsA, colsA, rowsB, colsB, matrixA, matrixB, operation>>
  /\ UNCHANGED notMatrixVars

NextMatrixCalc == updateMatrixA \/ updateMatrixB \/ setOperation \/ calculate

\* calculations on matrices of given sizes
SpecMatrixCalc == InitCalc /\ [][NextMatrixCalc]_vars

\* the selected operation, result and error that earlier calculations
\* leave behind at two 3 x 3 grids of '0': none yet; a product refused for
\* its shapes while A had two columns; the determinant of A
GridOutcomes ==
  { [operation |-> "multiply", result |-> EmptyMatrixResult, error |-> "null"],
    [operation |-> "multiply", result |-> EmptyMatrixResult, error |-> ShapeErrorMessage],
    [operation |-> "determinant",
     result |-> evaluate(Expression("determinant", Zeros(3, 3), Zeros(3, 3))).value,
     error |-> "null"] }

\* two 3 x 3 grids of '0' with the outcome of an earlier calculation
InitGrid ==
  /\ InitSolver
  /\ NoMerge
  /\ InitPiecewise
  /\ InitPages
  /\ rowsA = 3 /\ colsA = 3 /\ rowsB = 3 /\ colsB = 3
  /\ matrixA = Zeros(3, 3)
  /\ matrixB = Zeros(3, 3)
  /\ \E o \in GridOutcomes :
       operation = o.operation /\ result = o.result /\ matrixError = o.error

NextMatrixGrid == NextMatrixEdit \/ updateMatrixA \/ updateMatrixB

\* the grids under the size buttons, edits of a cell and the Identity and
\* Clear buttons
SpecMatrixGrid == InitGrid /\ [][NextMatrixGrid]_vars

\* the state that the PiecewiseCalculator leaves alone
notPiecewiseVars == <<equationSolverVars, matrixVars, pageVars>>

\* graphData is about to be computed for given segments and ranges
InitGraph ==
  /\ InitSolver
  /\ NoMerge
  /\ InitMatrix
  /\ InitPages
  /\ segments \in SegmentLists
  /\ xRange \in XRanges
  /\ yRange \in YRanges
  /\ graphData = <<>>
  /\ data = <<>>
  /\ pointIndex = 0
  /\ graphPc = "sample"
  /\ sampleCalls = {}

\* one pass through the body of the loop of graphData: the point of index
\* pointIndex is built and pushed
samplePoint ==
  /\ graphPc = "sample"
  /\ MorePoints(pointIndex)
  /\ \E step \in {StepOf(xRange)} :
       \E px \in {FAdd(xRange.min, FMul(Num(pointIndex * Scale), step))} :
         /\ data' = Append(data, PointAt(segments, px, step, yRange))
         /\ sampleCalls' = sampleCalls \cup
              {<<pointIndex, k>> : k \in {j \in 1..Len(segments) : ShouldSample(px, segments[j])}}
  /\ pointIndex' = pointIndex + 1
  /\ UNCHANGED <<segments, xRange, yRange, graphData, graphPc>>
  /\ UNCHANGED notPiecewiseVars

\* the loop ends and data becomes graphData
graphDone ==
  /\ graphPc = "sample"
  /\ ~MorePoints(pointIndex)
  /\ graphData' = data
  /\ graphPc' = "idle"
  /\ UNCHANGED <<segments, xRange, yRange, data, pointIndex, sampleCalls>>
  /\ UNCHANGED notPiecewiseVars

NextGraph == samplePoint \/ graphDone

\* the computation of graphData
SpecGraph == InitGraph /\ [][NextGraph]_vars

\* the state that the ComplexCalculator leaves alone
notComplexVars ==
  <<equationSolverVars, matrixVars, piecewiseVars, converterVars, indexVars>>

\* onChange of the four fields
setRealA ==
  /\ \E t \in RealATexts : realA' = t
  /\ UNCHANGED <<imagA, realB, imagB, complexResult, complexError>>
  /\ UNCHANGED notComplexVars

setImagA ==
  /\ \E t \in ImagATexts : imagA' = t
  /\ UNCHANGED <<realA, realB, imagB, complexResult, complexError>>
  /\ UNCHANGED notComplexVars

setRealB ==
  /\ \E t \in RealBTexts : realB' = t
  /\ UNCHANGED <<realA, imagA, imagB, complexResult, complexError>>
  /\ UNCHANGED notComplexVars

setImagB ==
  /\ \E t \in ImagBTexts : imagB' = t
  /\ UNCHANGED <<realA, imagA, realB, complexResult, complexError>>
  /\ UNCHANGED notComplexVars

\* the polar case of calculate: two evaluations, setResult and return when
\* both succeed, otherwise break with expr still ''
calculatePolar(a) ==
  \E rResult \in {evaluateComplex(MagnitudeOf(a))},
     thetaResult \in {evaluateComplex(ArgumentOf(a))} :
    /\ complexError' = "null"
    /\ IF rResult.error = "null" /\ thetaResult.error = "null"
       THEN complexResult' = PolarText(rResult.value, thetaResult.value)
       ELSE UNCHANGED complexResult

\* click on the button of operation: calculate(operation)
calculateComplex(op) ==
  /\ \E a \in {ComplexLiteral(realA, imagA)}, b \in {ComplexLiteral(realB, imagB)} :
       IF op = "polar" THEN calculatePolar(a)
       ELSE \E expr \in {ComplexExpression(op, a, b)} :
              IF expr = EmptyExpr
              THEN complexError' = "null" /\ UNCHANGED complexResult
              ELSE \E calcResult \in {evaluateComplex(expr)} :
                     IF calcResult.error # "null"
                     THEN /\ complexError' = calcResult.error
                          /\ UNCHANGED complexResult
                     ELSE /\ complexError' = "null"
                          /\ complexResult' = calcResult.value
  /\ UNCHANGED <<realA, imagA, realB, imagB>>
  /\ UNCHANGED notComplexVars

NextComplex ==
  \/ setRealA
  \/ setImagA
  \/ setRealB
  \/ setImagB
  \/ \E op \in ComplexOperations : calculateComplex(op)

\* the ComplexCalculator under edits of its fields and clicks on its buttons
SpecComplex == Init /\ [][NextComplex]_vars

\* the state that the BaseConverter leaves alone
notConverterVars ==
  <<equationSolverVars, matrixVars, piecewiseVars, complexVars, indexVars>>

\* the state of the copy buttons
copyVars == <<copiedBase, clipboard, resetTimers, now>>

\* the state of the conversion
conversionVars == <<inputValue, fromBase, results, converterError, convertTimers>>

\* largest number of pending timeouts of setTimeout(convert, 0)
MaxPending == 1

\* onChange of the input field: the new text is taken when it passes
\* validateInput for the current base or is empty
setInputValue ==
  /\ \E value \in InputTexts :
       IF validateInput(value, fromBase) \/ value = <<>>
       THEN inputValue' = value
       ELSE UNCHANGED inputValue
  /\ lastEvent' = "input"
  /\ UNCHANGED <<fromBase, results, converterError, convertTimers>>
  /\ UNCHANGED copyVars
  /\ UNCHANGED notConverterVars

\* onValueChange of the base selection
setFromBase ==
  /\ \E v \in Bases : fromBase' = v
  /\ inputValue' = <<>>
  /\ lastEvent' = "base"
  /\ UNCHANGED <<results, converterError, convertTimers>>
  /\ UNCHANGED copyVars
  /\ UNCHANGED notConverterVars

\* the body of a convert that closes over the text value and the base
convertOf(value, base) ==
  \E decimal \in {parseInt(value, Radix(base))} :
    IF decimal.nan
    THEN converterError' = InvalidNumberError(base) /\ UNCHANGED results
    ELSE IF decimal.v < 0
    THEN converterError' = NegativeError /\ UNCHANGED results
    ELSE /\ converterError' = "null"
         /\ results' = Representations(decimal.v)

\* click on Convert, or Enter in the input field
convert ==
  /\ convertOf(inputValue, fromBase)
  /\ lastEvent' = "convert"
  /\ UNCHANGED <<inputValue, fromBase, convertTimers>>
  /\ UNCHANGED copyVars
  /\ UNCHANGED notConverterVars

\* click on a Common Values button: setInputValue(item.value),
\* setFromBase('10') and setTimeout(convert, 0) with the convert of the
\* current render
commonValue ==
  /\ Len(convertTimers) < MaxPending
  /\ \E item \in CommonValues : inputValue' = item
  /\ fromBase' = "10"
  /\ convertTimers' = Append(convertTimers, [inputValue |-> inputValue, fromBase |-> fromBase])
  /\ lastEvent' = "common"
  /\ UNCHANGED <<results, converterError>>
  /\ UNCHANGED copyVars
  /\ UNCHANGED notConverterVars

\* the timeout of a Common Values click runs its convert
deferredConvert ==
  /\ convertTimers # <<>>
  /\ convertOf(Head(convertTimers).inputValue, Head(convertTimers).fromBase)
  /\ convertTimers' = Tail(convertTimers)
  /\ lastEvent' = "deferred"
  /\ UNCHANGED <<inputValue, fromBase>>
  /\ UNCHANGED copyVars
  /\ UNCHANGED notConverterVars

NextConverter == setInputValue \/ setFromBase \/ convert \/ commonValue \/ deferredConvert

\* the BaseConverter under edits, base changes, conversions and clicks on
\* the common values
SpecConverter == Init /\ [][NextConverter]_vars

\* largest number of pending timeouts that reset copiedBase
MaxResets == 2

\* the number of steps of TickMs milliseconds that the time runs for
MaxTicks == 6

\* click on the copy button of a base: copyToClipboard(base)
copyToClipboard ==
  /\ Len(resetTimers) < MaxResets
  /\ \E base \in Bases :
       /\ clipboard' = results[base]
       /\ copiedBase' = base
  /\ resetTimers' = Append(resetTimers, now + resetDelay)
  /\ lastEvent' = "copy"
  /\ UNCHANGED now
  /\ UNCHANGED conversionVars
  /\ UNCHANGED notConverterVars

\* the timeout that is due first runs: setCopiedBase(null)
resetCopied ==
  /\ resetTimers # <<>>
  /\ Head(resetTimers) <= now
  /\ copiedBase' = "null"
  /\ resetTimers' = Tail(resetTimers)
  /\ UNCHANGED <<clipboard, now, lastEvent>>
  /\ UNCHANGED conversionVars
  /\ UNCHANGED notConverterVars

\* the time passes; a timeout that is due may run late
tick ==
  /\ now < MaxTicks * TickMs
  /\ now' = now + TickMs
  /\ UNCHANGED <<copiedBase, clipboard, resetTimers, lastEvent>>
  /\ UNCHANGED conversionVars
  /\ UNCHANGED notConverterVars

NextCopy == copyToClipboard \/ resetCopied \/ tick

\* the copy buttons of the BaseConverter and their timeouts
SpecCopy == Init /\ [][NextCopy]_vars

\* the state that the Index page leaves alone
notPageVars == <<equationSolverVars, matrixVars, piecewiseVars, complexVars>>

\* a BaseConverter is mounted anew: its state is that of construction
\* (timeouts that are pending do not reach the new component)
mountConverter ==
  /\ inputValue' = DefaultInput
  /\ fromBase' = "10"
  /\ results' = DefaultResults
  /\ converterError' = "null"
  /\ lastEvent' = "none"
  /\ convertTimers' = <<>>
  /\ copiedBase' = "null"
  /\ UNCHANGED <<clipboard, resetTimers, now>>

\* click on the button of a mode in the navigation: setActiveMode(mode.id).
\* The page renders renderCalculator(); a component of another type is
\* mounted with fresh state, a component of the same type keeps its state.
onModeChange ==
  /\ \E mode \in Modes :
       /\ activeMode' = mode
       /\ mounted' = renderCalculator(mode)
  /\ IF mounted' # mounted THEN mountConverter ELSE UNCHANGED converterVars
  /\ UNCHANGED notPageVars

\* the handlers of the BaseConverter field, base selection and Convert
\* button while the BaseConverter is the mounted component
converterEvent ==
  /\ mounted = "BaseConverter"
  /\ setInputValue \/ setFromBase \/ convert

NextIndex == onModeChange \/ converterEvent

\* the Index page: the navigation, and the BaseConverter while it is shown
SpecIndex == Init /\ [][NextIndex]_vars

\* the browser runs a started findRoots call to its end
FairSpecRoots ==
  /\ Init /\ [][NextRoots]_vars
  /\ WF_vars(seedLoop) /\ WF_vars(newtonIter) /\ WF_vars(iterExhausted) /\ WF_vars(report)

(***************************************************************************)
(* Properties of findRoots                                                 *)
(***************************************************************************)

\* the seed loop has run through every seed
AfterLastSeed == pc = "seed" /\ start > startMax * Scale

\* C1: at every point of the search any two accepted roots differ by at
\* least 1e-4 and every accepted root has a residual |f(r)| below 1e-4
C1_RootsDistinctAndAccurate ==
  /\ \A j, k \in 1..Len(roots) :
       j # k => ~AbsLt(Num(roots[j] - roots[k]), dedupExp)
  /\ \A k \in 1..Len(roots) : AbsLt(EvalF(polynomial, Num(roots[k])), residualExp)

\* all seeds done, several roots accepted and their duplicates from later seeds rejected
C1_Witness == AfterLastSeed /\ Len(roots) >= 3

\* C2: for x^3 - 6x^2 + 11x - 6 the search ends with exactly three roots,
\* one within 1e-4 of each of 1, 2 and 3, and reports them
C2_CubicRoots ==
  [][(AfterLastSeed /\ polynomial = Cubic) =>
       /\ Len(roots) = 3
       /\ \A r \in 1..3 : \E k \in 1..Len(roots) : AbsLt(Num(roots[k] - r * Scale), 4)
       /\ polyResult'.kind = "roots"
       /\ Len(polyResult'.xs) = 3
       /\ \A k \in 1..3 : Abs(polyResult'.xs[k] - k * Pow10(6)) < Pow10(2)]_vars

\* the cubic has been searched and 1.000000, 2.000000, 3.000000 reported
C2_Witness ==
  /\ pc = "idle" /\ polynomial = Cubic /\ error = "null"
  /\ polyResult = [kind |-> "roots", xs |-> <<Pow10(6), 2 * Pow10(6), 3 * Pow10(6)>>]

\* C3: the reported root list is in ascending order
C3_ReportedRootsAscending ==
  \A k \in 1..(Len(polyResult.xs) - 1) : polyResult.xs[k] <= polyResult.xs[k + 1]

\* x^3 - x reported: its roots were found in the order -1, 1, 0
C3_Witness ==
  polyResult = [kind |-> "roots", xs |-> <<0 - Pow10(6), 0, Pow10(6)>>]

\* C4: a findRoots call ends; it runs the seeds -10, -9.5, ..., 10, at
\* most 41 of them, with at most maxIterations Newton iterations each
C4_FindRootsTerminates ==
  /\ [](pc = "iter" => i <= maxIterations)
  /\ [](pc # "idle" =>
          /\ start >= startMin * Scale
          /\ (start - startMin * Scale) % startStep = 0
          /\ (start - startMin * Scale) \div startStep <= 41)
  /\ (pc # "idle") ~> (pc = "idle")

\* a seed has used up all its iterations
C4_Witness == pc = "iter" /\ i = maxIterations

\* an evaluation of f throws in the current iteration
ThrowsNow == pc = "iter" /\ LoopGuard(i) /\ EvalThrows(polynomial, x)

\* C5 as stated: a throw gives up only the current seed; the search goes on
\* with the roots found so far and no error is set
C5_ThrowSkipsSeedOnly ==
  [][ThrowsNow => /\ pc' = "seed"
                  /\ start' = start + startStep
                  /\ roots' = roots
                  /\ error' = "null"]_vars

\* C5 amended: a throw ends the whole call: the error is the thrown
\* message, polyResult is unchanged, no further seed is run and the roots
\* found so far are dropped
C5_ThrowEndsCall ==
  [][ThrowsNow => /\ pc' = "idle"
                  /\ error' = ThrownMessage(polynomial)
                  /\ error' # "null"
                  /\ polyResult' = polyResult
                  /\ roots' = <<>>]_vars

\* the call on x^2 - 4 + 0*nthRoot(-x) has ended in the error of seed 0.5
C5_Witness ==
  /\ pc = "idle" /\ polynomial.fault = "domain"
  /\ error = "Root must be odd when a is negative."

\* C6: a call that ends with no accepted root sets polyResult to the
\* 'No real roots found' text with error null; a call that fails sets error
\* and leaves polyResult unchanged; no call does both
C6_EmptyResultIsNotAnError ==
  [][/\ (AfterLastSeed /\ Len(roots) = 0) =>
          (polyResult' = NoRootsResult /\ error' = "null")
     /\ (pc = "idle" /\ pc' = "idle" /\ polynomial' = polynomial /\ eq1' = eq1
           /\ eq2' = eq2 /\ systemResult' = systemResult /\ polynomial.fault = "syntax") =>
          (error' # "null" /\ polyResult' = polyResult)
     /\ (pc # "idle" /\ pc' = "idle" /\ error' # "null") => polyResult' = polyResult
     /\ (pc # "idle" /\ pc' = "idle" /\ error' = "null") => polyResult'.kind # "empty"
     /\ (pc' # "idle") => (polyResult' = polyResult /\ error' = "null")]_vars

\* the search of the constant 5 has ended: no root, no error
C6_Witness ==
  /\ pc = "idle" /\ polynomial.text = "5"
  /\ polyResult = NoRootsResult /\ error = "null"

\* the current iterate has a derivative below 1e-15
AtStationaryPoint ==
  /\ pc = "iter"
  /\ LoopGuard(i)
  /\ ~EvalThrows(polynomial, x)
  /\ \E dfx \in {EvalDF(polynomial, x)} : AbsLt(dfx, derivExp)

\* C22: when |f'(x)| < 1e-15 at an iterate, the iteration of that seed
\* stops at once: the next step leaves the Newton loop for the next seed,
\* no further iterate is computed and the root list is unchanged.
C22_NearZeroDerivativeEndsSeed ==
  [][AtStationaryPoint =>
       /\ pc' = "seed"
       /\ start' = start + startStep
       /\ i' = 0
       /\ roots' = roots
       /\ polyResult' = polyResult
       /\ error' = error]_vars

\* the derivative vanishes at the second iterate: x^2 + 1 from the seed 1
\* or -1 steps to 0
C22_Witness == AtStationaryPoint /\ i = 1 /\ x = Num(0) /\ polynomial.coef = <<1, 0, 1>>

(***************************************************************************)
(* The merge of findRoots on its own: a list of converged candidates is    *)
(* passed through the acceptance test in seed order and in another order,  *)
(* and both root lists are sorted.                                         *)
(***************************************************************************)

\* number of candidates merged
MaxCands == 3

\* candidates at 0, 6e-5, 1.2e-4 and 3e-4
CandValues == {0, 6 * Pow10(Digits - 5), 12 * Pow10(Digits - 5), 30 * Pow10(Digits - 5)}

Perms(n) == {f \in [1..n -> 1..n] : \A a, b \in 1..n : a # b => f[a] # f[b]}

\* f(candidate): 1 at the candidates whose residual is too large, else 0
ResidualOf(v) == IF v \in badResidual THEN Num(Scale) ELSE Num(0)

InitMerge ==
  /\ InitSolver
  /\ InitMatrix
  /\ InitPiecewise
  /\ InitPages
  /\ candidates \in [1..MaxCands -> CandValues]
  /\ badResidual \in {{}} \cup {{v} : v \in CandValues}
  /\ visitOrder \in Perms(MaxCands)
  /\ merged = 0
  /\ rootsSeedOrder = <<>>
  /\ rootsOtherOrder = <<>>
  /\ mergePhase = "merging"

\* the next candidate of each order goes through the acceptance test
mergeNext ==
  /\ mergePhase = "merging"
  /\ merged < Len(candidates)
  /\ merged' = merged + 1
  /\ rootsSeedOrder' =
       Accept(rootsSeedOrder, Num(candidates[merged + 1]), ResidualOf(candidates[merged + 1]))
  /\ rootsOtherOrder' =
       Accept(rootsOtherOrder, Num(candidates[visitOrder[merged + 1]]),
              ResidualOf(candidates[visitOrder[merged + 1]]))
  /\ UNCHANGED <<candidates, badResidual, visitOrder, mergePhase>>
  /\ UNCHANGED solverVars

\* roots.sort((a, b) => a - b) on both lists
mergeSort ==
  /\ mergePhase = "merging"
  /\ merged = Len(candidates)
  /\ rootsSeedOrder' = SortAsc(rootsSeedOrder)
  /\ rootsOtherOrder' = SortAsc(rootsOtherOrder)
  /\ mergePhase' = "sorted"
  /\ UNCHANGED <<candidates, badResidual, visitOrder, merged>>
  /\ UNCHANGED solverVars

NextMerge == mergeNext \/ mergeSort

SpecMerge == InitMerge /\ [][NextMerge]_vars

Ascending(s) == \A k \in 1..(Len(s) - 1) : s[k] <= s[k + 1]

\* any two entries of s differ by at least 1e-4
Separated(s) == \A j, k \in 1..Len(s) : j # k => ~AbsLt(Num(s[j] - s[k]), dedupExp)

\* every entry of s is within 1e-4 of an entry of t
Covers(s, t) == \A j \in 1..Len(s) : \E k \in 1..Len(t) : AbsLt(Num(s[j] - t[k]), dedupExp)

\* C7 as stated: merging the same candidates in any order gives the same
\* sorted root list
C7_MergeOrderIndependent ==
  mergePhase = "sorted" => rootsSeedOrder = rootsOtherOrder

\* C7 amended: the sorted root lists of two merge orders agree up to the
\* dedup tolerance: each is ascending with entries at least 1e-4 apart, and
\* every root of one lies within 1e-4 of a root of the other; the lists
\* themselves, and their lengths, can differ
C7_MergeOrderUpToTolerance ==
  mergePhase = "sorted" =>
    /\ Ascending(rootsSeedOrder) /\ Ascending(rootsOtherOrder)
    /\ Separated(rootsSeedOrder) /\ Separated(rootsOtherOrder)
    /\ Covers(rootsSeedOrder, rootsOtherOrder)
    /\ Covers(rootsOtherOrder, rootsSeedOrder)

\* two orders of the same candidates ended in root lists of different length
C7_Witness ==
  /\ mergePhase = "sorted" /\ merged = MaxCands
  /\ Len(rootsSeedOrder) # Len(rootsOtherOrder)

(***************************************************************************)
(* Properties of solveSystem                                               *)
(***************************************************************************)

\* a step of solveSystem (the only operation that leaves both texts alone)
SolveStep == eq1' = eq1 /\ eq2' = eq2 /\ solveSystem

\* all three coefficients are numbers
Numeric(p) == p.ok /\ ~p.a.nan /\ ~p.b.nan /\ ~p.c.nan

\* the number that a toFixed(6) text denotes
FromFixed(t) ==
  IF t.nan THEN NaN
  ELSE Signed(t.v < 0, RoundMulDiv(Abs(t.v), Scale, Pow10(6)))

\* |l - r| <= slack / 2 units of the last digit, for numbers l and r
Near(l, r, slack) == ~l.nan /\ ~r.nan /\ 2 * Abs(l.v - r.v) <= slack

\* a * x + b * y equals c up to the rounding of x, y and the products
Satisfies(p, xv, yv) ==
  Near(FAdd(FMul(p.a, xv), FMul(p.b, yv)), p.c, (Abs(p.a.v) + Abs(p.b.v)) \div Scale + 4)

\* x * det equals n up to the rounding of x and the product
TimesDetIs(xv, det, n) == Near(FMul(xv, det), n, Abs(det.v) \div Scale + 2)

\* what C8 says of the result r for the parsed equations p1 and p2
CramerHolds(p1, p2, det, xv, yv) ==
  /\ Satisfies(p1, xv, yv)
  /\ Satisfies(p2, xv, yv)
  /\ TimesDetIs(xv, det, FSub(FMul(p1.c, p2.b), FMul(p2.c, p1.b)))
  /\ TimesDetIs(yv, det, FSub(FMul(p1.a, p2.c), FMul(p2.a, p1.c)))
  /\ (p1.a = Num(2 * Scale) /\ p1.b = Num(3 * Scale) /\ p1.c = Num(8 * Scale)
        /\ p2.a = Num(Scale) /\ p2.b = Num(0 - Scale) /\ p2.c = Num(Scale)) =>
       (xv = Num(22 * Pow10(Digits - 1)) /\ yv = Num(12 * Pow10(Digits - 1)))

\* C8: for numeric coefficients with D # 0 the reported x and y are
\* (c1*b2 - c2*b1)/D and (a1*c2 - a2*c1)/D and satisfy both equations;
\* 2x + 3y = 8, x - 1y = 1 gives x = 2.2, y = 1.2
C8_CramerSolvesBothEquations ==
  [][SolveStep =>
       \A p1 \in {parseEquation(eq1)}, p2 \in {parseEquation(eq2)} :
         \A det \in {Det(p1, p2)} :
           (Numeric(p1) /\ Numeric(p2) /\ ~det.nan /\ det.v # 0) =>
             /\ error' = "null"
             /\ systemResult'.kind = "solution"
             /\ \A xv \in {FromFixed(systemResult'.x)}, yv \in {FromFixed(systemResult'.y)} :
                  CramerHolds(p1, p2, det, xv, yv)]_vars

\* 2x + 3y = 8 and x - 1y = 1 solved: x = 2.200000, y = 1.200000
C8_Witness ==
  /\ eq1 = EqDefault1 /\ eq2 = EqExplicitUnit /\ error = "null"
  /\ systemResult = [kind |-> "solution", x |-> Num(2200000), y |-> Num(1200000)]

\* C9: with D exactly 0 solveSystem sets the 'no unique solution' error
\* and leaves systemResult as it was: nothing is divided by D
C9_ZeroDeterminantIsAnError ==
  [][SolveStep =>
       \A p1 \in {parseEquation(eq1)}, p2 \in {parseEquation(eq2)} :
         \A det \in {Det(p1, p2)} :
           (p1.ok /\ p2.ok /\ ~det.nan /\ det.v = 0) =>
             (error' = NoUniqueError /\ systemResult' = systemResult)]_vars

\* 2x + 3y = 8 with 4x + 6y = 16 refused after an earlier solution, which is kept
C9_Witness ==
  /\ eq1 = EqDefault1 /\ eq2 = EqDouble /\ error = NoUniqueError
  /\ systemResult.kind = "solution"

\* C10: solving the built-in texts 2x + 3y = 8 and x - y = 1 gives
\* x = 2.2 and y = 1.2, the omitted coefficient of y being read as -1
C10_DefaultTextsSolve ==
  [][(eq1 = EqDefault1 /\ eq2 = EqDefault2 /\ SolveStep) =>
       /\ parseEquation(eq2).b = Num(0 - Scale)
       /\ error' = "null"
       /\ systemResult' = [kind |-> "solution", x |-> Num(2200000), y |-> Num(1200000)]]_vars

\* C11: when the pattern matches neither or only one of the two texts,
\* solveSystem sets the format error and leaves systemResult as it was
C11_NoMatchIsFormatError ==
  [][SolveStep =>
       \A p1 \in {parseEquation(eq1)}, p2 \in {parseEquation(eq2)} :
         (~p1.ok \/ ~p2.ok) =>
           (error' = FormatError /\ systemResult' = systemResult)]_vars

\* "2x + 3y" (no right-hand side) refused as the second text after an
\* earlier solution, which is kept
C11_Witness ==
  /\ parseEquation(eq1).ok /\ eq2 = EqNoRhs /\ error = FormatError
  /\ systemResult.kind = "solution"

\* texts that are not of the form ax + by = c
UndocumentedForms == {EqFraction, EqYFirst, EqExtraText}

\* C12: a text with a fraction as coefficient, with y before x or with
\* extra text around the equation is rejected with the format error and
\* nothing is solved from a part of it
C12_UndocumentedFormsRejected ==
  [][(SolveStep /\ (eq1 \in UndocumentedForms \/ eq2 \in UndocumentedForms)) =>
       (error' = FormatError /\ systemResult' = systemResult)]_vars

(***************************************************************************)
(* Properties of solveQuadratic                                            *)
(***************************************************************************)

\* a step of solveQuadratic that changes the result or the error (the only
\* operation that leaves the three texts alone)
QuadStep ==
  /\ quadA' = quadA /\ quadB' = quadB /\ quadC' = quadC
  /\ (quadResult' # quadResult \/ error' # error)
  /\ solveQuadratic

\* the coefficients are numbers and a is not zero
RealQuadratic(a, b, c) == ~a.nan /\ ~b.nan /\ ~c.nan /\ a.v # 0

\* a multiple of 1/2 counted in halves
Halves(v) == (2 * v.v) \div Scale

\* 4 * (b*b - 4*a*c), exact, for coefficients that are multiples of 1/2
ExactDiscriminantTimes4(a, b, c) ==
  Halves(b) * Halves(b) - 4 * Halves(a) * Halves(c)

\* C13: for numbers a # 0, b, c solveQuadratic reports exactly one case,
\* chosen by the sign of b*b - 4*a*c: two real roots iff positive, one
\* repeated root iff zero, two complex roots iff negative
C13_CaseFollowsDiscriminantSign ==
  [][QuadStep =>
       \A a \in {ParseFloat(quadA)}, b \in {ParseFloat(quadB)}, c \in {ParseFloat(quadC)} :
         RealQuadratic(a, b, c) =>
           \A d4 \in {ExactDiscriminantTimes4(a, b, c)} :
             /\ error' = "null"
             /\ quadResult'.kind \in {"Two real roots", "One repeated root", "Two complex roots"}
             /\ quadResult'.kind = "Two real roots" <=> d4 > 0
             /\ quadResult'.kind = "One repeated root" <=> d4 = 0
             /\ quadResult'.kind = "Two complex roots" <=> d4 < 0
             /\ quadResult'.disc = Num(d4 * (Pow10(4) \div 4))]_vars

\* 0.5x^2 + 2x + 2 solved: discriminant exactly 0, one repeated root -2
C13_Witness ==
  /\ ParseFloat(quadA) = Num(Scale \div 2) /\ error = "null"
  /\ quadResult = [kind |-> "One repeated root", disc |-> Num(0),
                    x1 |-> Num(0 - 2 * Pow10(6)), x2 |-> Num(0 - 2 * Pow10(6))]

\* a * (re*re - im*im) + b * re + c: the real part of the residual at re + im i
ResidualRe(a, b, c, re, im) ==
  FAdd(FAdd(FMul(a, FSub(FMul(re, re), FMul(im, im))), FMul(b, re)), c)

\* 2 * a * re * im + b * im: the imaginary part of the residual at re + im i
ResidualIm(a, b, re, im) == FAdd(FMul(FMul(TwoA(a), re), im), FMul(b, im))

\* twice the rounding error, in units of the last digit, that the residual
\* of a correctly rounded root can carry
QuadSlack(a, b, c) == 4 * ((Abs(a.v) + Abs(b.v) + Abs(c.v)) \div Scale) + 8

\* re + im i and re - im i are roots of a x^2 + b x + c up to rounding
IsRootPair(a, b, c, re, im) ==
  /\ Near(ResidualRe(a, b, c, re, im), Num(0), QuadSlack(a, b, c))
  /\ Near(ResidualIm(a, b, re, im), Num(0), QuadSlack(a, b, c))

C15_ZeroLeadingCoefficientIsAnError ==
  [][QuadStep =>
       \A a \in {ParseFloat(quadA)} :
         (a = Num(0)) => (error' = QuadZeroError /\ quadResult' = quadResult)]_vars

\* a = 0 refused after an earlier solution, which is kept
C15_Witness ==
  /\ ParseFloat(quadA) = Num(0) /\ error = QuadZeroError
  /\ quadResult.kind = "Two real roots"

\* one of the three coefficient texts does not parse to a number
UnparsedCoefficient ==
  \E t \in {quadA, quadB, quadC} : \E v \in {ParseFloat(t)} : v.nan

\* C25: if a, b or c does not parse to a number, solveQuadratic sets an
\* error and leaves quadResult unchanged, so no result with a NaN
\* discriminant or NaN roots is written.
C25_UnparsedCoefficientIsAnError ==
  [][(UnparsedCoefficient /\ QuadStep) =>
       /\ error' # "null"
       /\ quadResult' = quadResult]_vars

(***************************************************************************)
(* Properties of the MatrixCalculator                                      *)
(***************************************************************************)

\* m is a rows x cols grid
HasShape(m, rows, cols) == Len(m) = rows /\ \A r \in 1..rows : Len(m[r]) = cols

\* C17: setIdentity gives the rows x cols grid with '1' exactly on the
\* diagonal and '0' elsewhere, clearMatrix the rows x cols grid of '0',
\* and each leaves the other matrix and both sizes as they were
C17_IdentityAndClearGrids ==
  [][/\ setIdentity(TRUE) =>
          /\ HasShape(matrixA', rowsA, colsA)
          /\ \A r \in 1..rowsA, c \in 1..colsA :
               matrixA'[r][c] = (IF r = c THEN "1" ELSE "0")
          /\ matrixB' = matrixB
     /\ setIdentity(FALSE) =>
          /\ HasShape(matrixB', rowsB, colsB)
          /\ \A r \in 1..rowsB, c \in 1..colsB :
               matrixB'[r][c] = (IF r = c THEN "1" ELSE "0")
          /\ matrixA' = matrixA
     /\ clearMatrix(TRUE) =>
          /\ HasShape(matrixA', rowsA, colsA)
          /\ \A r \in 1..rowsA, c \in 1..colsA : matrixA'[r][c] = "0"
          /\ matrixB' = matrixB
     /\ clearMatrix(FALSE) =>
          /\ HasShape(matrixB', rowsB, colsB)
          /\ \A r \in 1..rowsB, c \in 1..colsB : matrixB'[r][c] = "0"
          /\ matrixA' = matrixA
     /\ (\E isA \in BOOLEAN : setIdentity(isA) \/ clearMatrix(isA)) =>
          <<rowsA, colsA, rowsB, colsB>>' = <<rowsA, colsA, rowsB, colsB>>]_vars

\* Identity clicked for a 6 x 2 matrix A while B is a cleared 1 x 6 grid
C17_Witness ==
  /\ rowsA = maxSize /\ colsA = 2
  /\ matrixA = <<<<"1", "0">>, <<"0", "1">>, <<"0", "0">>, <<"0", "0">>, <<"0", "0">>,
                  <<"0", "0">>>>
  /\ rowsB = 1 /\ colsB = maxSize
  /\ matrixB = <<<<"0", "0", "0", "0", "0", "0">>>>

\* a step of calculate (the only operation that leaves the grids and the
\* selection alone)
CalcStep ==
  /\ matrixA' = matrixA /\ matrixB' = matrixB /\ operation' = operation
  /\ calculate

\* C16: multiplying with cols(A) # rows(B) ends with the error set to the
\* evaluator's message and with result as it was; calculate passes the
\* expression on without a test of its own
C16_ShapeMismatchIsAnError ==
  [][(CalcStep /\ operation = "multiply" /\ colsA # rowsB) =>
       /\ matrixError' # "null"
       /\ matrixError' = evaluate(Expression("multiply", matrixA, matrixB)).error
       /\ result' = result]_vars

\* 2 x 3 by 2 x 3 refused after an earlier calculation, whose value is kept
C16_Witness ==
  /\ rowsA = 2 /\ colsA = 3 /\ rowsB = 2 /\ colsB = 3
  /\ operation = "multiply"
  /\ matrixError = ShapeErrorMessage
  /\ result.kind = "matrix"

(***************************************************************************)
(* Properties of the piecewise graph data                                  *)
(***************************************************************************)

\* graphData has been computed
GraphReady == graphPc = "idle"

\* C18: in the graph data a segment's value at x is null whenever its
\* condition does not hold at x or its expression is blank, and the sampler
\* was called for a segment only at sample points where its condition holds
C18_NullOutsideDomain ==
  GraphReady =>
    /\ \A k \in 1..Len(graphData), j \in 1..Len(segments) :
         (~NotBlank(segments[j].expression) \/ ~evaluateCondition(graphData[k].x, segments[j]))
           => graphData[k].y[segments[j].id] = NullY
    /\ \A call \in sampleCalls :
         /\ NotBlank(segments[call[2]].expression)
         /\ evaluateCondition(graphData[call[1] + 1].x, segments[call[2]])

\* the default segments on the default ranges: at x = -2 the segment
\* x^2 (x < 0) has a value and the segment 2*x (x >= 0) is null
C18_Witness ==
  /\ GraphReady /\ segments = DefaultSegments /\ xRange = DefaultRange
  /\ graphData[201].x = Num(0 - 2 * Scale)
  /\ graphData[201].y["1"] = NumberY(40804 * Pow10(Digits - 4))
  /\ graphData[201].y["2"] = NullY
  /\ <<200, 1>> \in sampleCalls

\* C19: every y of the graph data that is not null is a number inside
\* [yRange.min, yRange.max], a value that is sampled inside the window is
\* kept whatever the other segments do at that x, and every one of the
\* numPoints + 1 points has an entry for every segment
C19_ValuesInsideWindow ==
  GraphReady =>
    /\ Len(graphData) = numPoints + 1
    /\ \A k \in 1..Len(graphData) :
         /\ DOMAIN graphData[k].y = SegmentIds(segments)
         /\ \A j \in 1..Len(segments) :
              \A y \in {graphData[k].y[segments[j].id]} :
                /\ ~y.null => (yRange.min.v <= y.v /\ y.v <= yRange.max.v)
                /\ \A px \in {FSub(graphData[k].x, HalfStep(StepOf(xRange)))} :
                     \A sampled \in {SampleValue(segments[j].expression, px)} :
                       (/\ <<k - 1, j>> \in sampleCalls
                        /\ ~sampled.null
                        /\ yRange.min.v <= sampled.v /\ sampled.v <= yRange.max.v)
                         => y = sampled

\* x from -1 to 999: at x = 1 the segment 1/x is sampled at 0 and is null
\* while the segment 2*x keeps its value
C19_Witness ==
  /\ GraphReady /\ xRange.max = Num(999 * Scale) /\ yRange = DefaultRange
  /\ Len(segments) = 4 /\ segments[2].expression = ExprReciprocal
  /\ graphData[2].x = Num(Scale)
  /\ <<1, 2>> \in sampleCalls /\ graphData[2].y["2"] = NullY
  /\ graphData[2].y["3"] = NumberY(0)

\* C20: for min < max the graph data has exactly numPoints + 1 points, the
\* first at xRange.min, each (max - min) / numPoints after the one before
C20_PointsEvenlySpaced ==
  (GraphReady /\ Less(xRange.min, xRange.max)) =>
    /\ Len(graphData) = numPoints + 1
    /\ graphData[1].x = xRange.min
    /\ \A k \in 1..(Len(graphData) - 1) :
         /\ ~graphData[k].x.nan /\ ~graphData[k + 1].x.nan
         /\ graphData[k].x.v < graphData[k + 1].x.v
         /\ numPoints * (graphData[k + 1].x.v - graphData[k].x.v) = xRange.max.v - xRange.min.v

\* x from 0 to 1: 501 points, the last at 1
C20_Witness ==
  /\ GraphReady /\ xRange = [min |-> Num(0), max |-> Num(Scale)]
  /\ Len(graphData) = 501
  /\ graphData[501].x = Num(Scale)

(***************************************************************************)
(* Properties of the ComplexCalculator                                     *)
(***************************************************************************)
\* the value that calculate(op) computes from the fields, if the evaluator
\* returns one
ComputedValues(op) ==
  LET a == ComplexLiteral(realA, imagA)
      b == ComplexLiteral(realB, imagB)
  IN IF op = "polar"
     THEN {PolarText(r.value, t.value) :
             r \in {c \in {evaluateComplex(MagnitudeOf(a))} : c.error = "null"},
             t \in {c \in {evaluateComplex(ArgumentOf(a))} : c.error = "null"}}
     ELSE {c.value : c \in {d \in {evaluateComplex(ComplexExpression(op, a, b))} :
                              d.error = "null"}}

\* C21: every calculate(op), 'polar' included, ends with result set to the
\* newly computed value or with error set to a message; a failure of the
\* evaluator is never dropped.
C21_CalculateSetsResultOrError ==
  [][\A op \in ComplexOperations :
       calculateComplex(op) =>
         \/ complexError' # "null"
         \/ complexResult' \in ComputedValues(op)]_vars

\* C23: in every state of the MatrixCalculator, matrixA is a grid of rowsA
\* rows of colsA cells, matrixB one of rowsB rows of colsB cells, and the
\* four sizes lie in 1..6.
C23_GridsFollowSizes ==
  /\ HasShape(matrixA, rowsA, colsA)
  /\ HasShape(matrixB, rowsB, colsB)
  /\ {rowsA, colsA, rowsB, colsB} \subseteq 1..6

\* both matrices at sizes away from the default, one at the largest and one
\* at the smallest, A with an edited cell that is still in the grid
C23_Witness ==
  /\ rowsA = 6 /\ colsA = 1 /\ matrixA[1][1] = "2"
  /\ rowsB = 1 /\ colsB = 6 /\ matrixB[1][1] = "3"

\* new is old resized to rows x cols: the cells that old has are kept, the
\* others are '0'
ResizedFrom(old, new, rows, cols) ==
  /\ HasShape(new, rows, cols)
  /\ \A r \in 1..rows : \A c \in 1..cols :
       new[r][c] = IF r <= Len(old) /\ c <= Len(old[r]) THEN old[r][c] ELSE "0"

\* C24: a resize of a matrix keeps every cell that lies in both the old and
\* the new grid, sets the other cells of the new grid to '0', and leaves
\* the other matrix, the operation, result and error unchanged.
C24_ResizeKeepsCells ==
  [][/\ (rowsA' # rowsA \/ colsA' # colsA) =>
          /\ ResizedFrom(matrixA, matrixA', rowsA', colsA')
          /\ UNCHANGED <<rowsB, colsB, matrixB, operation, result, matrixError>>
     /\ (rowsB' # rowsB \/ colsB' # colsB) =>
          /\ ResizedFrom(matrixB, matrixB', rowsB', colsB')
          /\ UNCHANGED <<rowsA, colsA, matrixA, operation, result, matrixError>>]_vars

\* an identity grid with an edited cell has lost a row and gained a column
\* of '0', with the result and the error of earlier calculations in place
C24_Witness ==
  /\ rowsA = 2 /\ colsA = 4
  /\ matrixA = <<<<"2", "0", "0", "0">>, <<"0", "1", "0", "0">>>>
  /\ matrixError = ShapeErrorMessage

(***************************************************************************)
(* Properties of the BaseConverter                                         *)
(***************************************************************************)
\* the binary, octal, decimal and hexadecimal text of the common values
CommonTable(value) ==
  CASE value = <<"2", "5", "5">> ->
         [b \in Bases |-> CASE b = "2" -> <<"1", "1", "1", "1", "1", "1", "1", "1">>
                            [] b = "8" -> <<"3", "7", "7">>
                            [] b = "10" -> value
                            [] OTHER -> <<"F", "F">>]
    [] value = <<"6", "5", "5", "3", "5">> ->
         [b \in Bases |-> CASE b = "2" -> [k \in 1..16 |-> "1"]
                            [] b = "8" -> <<"1", "7", "7", "7", "7", "7">>
                            [] b = "10" -> value
                            [] OTHER -> <<"F", "F", "F", "F">>]
    [] value = <<"2", "5", "6">> ->
         [b \in Bases |-> CASE b = "2" -> <<"1">> \o [k \in 1..8 |-> "0"]
                            [] b = "8" -> <<"4", "0", "0">>
                            [] b = "10" -> value
                            [] OTHER -> <<"1", "0", "0">>]
    [] OTHER ->
         [b \in Bases |-> CASE b = "2" -> <<"1">> \o [k \in 1..10 |-> "0"]
                            [] b = "8" -> <<"2", "0", "0", "0">>
                            [] b = "10" -> value
                            [] OTHER -> <<"4", "0", "0">>]

\* C26: when the deferred convert of a Common Values click runs right after
\* the click, results holds the four representations of the clicked value,
\* which is then inputValue, with fromBase '10'.
C26_CommonValueIsConverted ==
  [][(lastEvent = "common" /\ Len(convertTimers) = 1 /\ lastEvent' = "deferred") =>
       /\ inputValue' \in CommonValues
       /\ fromBase' = "10"
       /\ results' = CommonTable(inputValue')
       /\ converterError' = "null"]_vars

\* the digits of a base
DigitsOfBase(base) ==
  CASE base = "2" -> {"0", "1"}
    [] base = "8" -> {"0", "1", "2", "3", "4", "5", "6", "7"}
    [] base = "10" -> {"0", "1", "2", "3", "4", "5", "6", "7", "8", "9"}
    [] OTHER -> {"0", "1", "2", "3", "4", "5", "6", "7", "8", "9",
                 "A", "B", "C", "D", "E", "F", "a", "b", "c", "d", "e", "f"}

\* C28: in every state of the BaseConverter, inputValue is empty or made of
\* digits of the current fromBase only.
C28_InputHasDigitsOfBase ==
  /\ fromBase \in Bases
  /\ \A k \in 1..Len(inputValue) : inputValue[k] \in DigitsOfBase(fromBase)

\* a typed text with a letter digit stands in the field, in base 16, after
\* the base was changed
C28_Witness == fromBase = "16" /\ inputValue = <<"7", "F">> /\ lastEvent = "input"

\* C27: the indicator of a copy stays until 2000 ms after that copy: it is
\* not cleared before the timeout of the latest copy (the last one
\* pending) is due, so the timeout of an earlier copy does not clear the
\* indicator of a later one.
C27_IndicatorStaysForDelay ==
  [][(copiedBase # "null" /\ copiedBase' = "null") =>
       /\ resetTimers # <<>>
       /\ resetTimers[Len(resetTimers)] <= now]_vars

\* the segment has the condition 'eq', an expression, and a boundary value
\* inside the x range
EqInsideRange(segment) ==
  /\ segment.condition = "eq"
  /\ NotBlank(segment.expression)
  /\ \E v \in {ParseFloat(segment.value1)} : LessEq(xRange.min, v) /\ LessEq(v, xRange.max)

\* C29: a segment with the condition 'eq' and a boundary value inside the
\* x range holds at one of the 501 sample positions at least, so the
\* sampler is called for it at least once.
C29_EqSegmentIsSampled ==
  GraphReady =>
    \A k \in 1..Len(segments) :
      EqInsideRange(segments[k]) => \E call \in sampleCalls : call[2] = k

(***************************************************************************)
(* Properties of the Index page                                            *)
(***************************************************************************)
\* the calculator component of each mode
OwnComponent(mode) ==
  CASE mode = "scientific" -> "ScientificCalculator"
    [] mode = "graphing" -> "GraphingCalculator"
    [] mode = "piecewise" -> "PiecewiseCalculator"
    [] mode = "calculus" -> "CalculusCalculator"
    [] mode = "matrix" -> "MatrixCalculator"
    [] mode = "equations" -> "EquationSolver"
    [] mode = "complex" -> "ComplexCalculator"
    [] mode = "statistics" -> "StatisticsCalculator"
    [] mode = "physics" -> "PhysicsCalculator"
    [] mode = "physics3d" -> "Physics3DCalculator"
    [] mode = "units" -> "UnitConverter"
    [] mode = "base" -> "BaseConverter"
    [] OTHER -> "ErrorChecker"

\* C30: whatever mode of the navigation is selected, the page shows that
\* mode's own calculator component; the components of the modes being
\* distinct, no two modes then show the same component.
C30_EachModeRendersItsOwn == mounted = OwnComponent(activeMode)

====
